---- MODULE Spec2Model ----
(***************************************************************************)
(* Behavioural-analytics core of InsightEase (app/services):               *)
(*   - PathAnalysisService.funnel_analysis      (SpecFunnel)               *)
(*   - AttributionService._build_user_journeys  (SpecJourney)              *)
(*   - AttributionService attribution models    (SpecAttr)                 *)
(*   - SequenceMiningService._build_sequences   (SpecBuildSeq)             *)
(*   - SequenceMiningService._prefixspan_mining (SpecMine)                 *)
(* Every service call is a synchronous batch computation over an in-memory *)
(* table, so each specification draws its input table and parameters in    *)
(* its Init and then runs the call's phases as actions.                    *)
(*                                                                         *)
(* Numbers.  Timestamps are whole hours (funnel) or whole half-lives       *)
(* (time decay).  Python floats are modelled as decimal fixed point:       *)
(* round(x, 2) is an integer number of hundredths, round(x, 4) an integer  *)
(* number of ten-thousandths, both rounded half-to-even as Python does.    *)
(***************************************************************************)
EXTENDS Integers, Sequences, FiniteSets, TLC

VARIABLES
    pc,               \* phase of the call that the specification models
    \* ---- funnel_analysis ----
    user_paths,       \* user -> list of event labels, time ordered
    user_timestamps,  \* user -> list of timestamps (hours), same order
    funnel_steps,     \* the ordered step labels
    time_window,      \* <<>> for None, <<h>> for a window of h hours
    fstep,            \* index of the next funnel step the first loop scans
    step_users,       \* step index -> set of users counted at the step
    step_times,       \* step index -> (user -> observed transition time)
    results,          \* results["funnel_steps"] and the overall rate
    \* ---- attribution_analysis ----
    df,               \* the rows of the dataset
    conversion_col,   \* "None", or a column name that is "present"/"absent"
    conversion_value_col,
    pending_users,    \* groups the loop of _build_user_journeys has not met
    user_journeys,    \* list of journey records
    models,           \* model name -> touchpoint -> [value, percentage]
    \* ---- sequence_pattern_mining ----
    first_column,     \* the role of the table's column 0
    event_time_column, \* the role of the column named event_time, or "None"
    sequences,        \* list of sequence records
    min_support,      \* numerator of min_support over SupportSteps
    max_pattern_length,
    frequent_patterns, \* list of pattern records
    min_confidence,   \* numerator of min_confidence over ConfidenceSteps
    association_rules, \* list of rule records
    \* ---- path_analysis ----
    path_groups,      \* the distinct lists of user_paths, in order of first
                      \* appearance, each with the number of users it has
    max_path_length,
    min_user_count,
    path_result,      \* the dict path_analysis returns
    \* ---- path_clustering ----
    feature_rows,     \* one row of feature_df per user, in user_ids order
    selected_features, \* the smart features asked for
    requested_clusters, \* the argument n_clusters as the caller passed it
    n_clusters,       \* the local n_clusters, which the call lowers
    labels,           \* the label of each user
    cluster_result,   \* the dict path_clustering returns
    \* ---- key_path_analysis ----
    start_event,
    end_event,
    max_steps,
    complete_paths,   \* list of the records of the qualifying users
    key_result,       \* the dict key_path_analysis returns
    \* ---- _prefixspan_mining, call by call ----
    item_order,       \* the order in which the set frequent_items is iterated
    item_queue,       \* the items the loop of line 208 has not met yet
    call_stack,       \* the active calls of mine_recursive, innermost last
    \* ---- analysis jobs (api/v1/endpoints/analysis.py) ----
    request,          \* analysis_type and the params that steer the dispatch
    handler_pc,       \* position of create_analysis
    task_pc,          \* position of execute_analysis_task
    analysis,         \* the row of the analyses table, NoRow before it exists
    result_data,      \* the local result_data of the task or endpoint
    terminal_writes,  \* how often the task has recorded a terminal status
    response          \* what a synchronous endpoint returns

funnelVars == <<user_paths, user_timestamps, funnel_steps, time_window,
                fstep, step_users, step_times, results>>

journeyVars == <<df, conversion_col, conversion_value_col, pending_users>>

attrVars == <<user_journeys, models>>

layoutVars == <<first_column, event_time_column>>

mineVars == <<sequences, min_support, max_pattern_length, frequent_patterns>>

ruleVars == <<min_confidence, association_rules>>

pathVars == <<path_groups, max_path_length, min_user_count, path_result>>

clusterVars ==
    <<feature_rows, selected_features, requested_clusters, n_clusters, labels,
      cluster_result>>

keyVars == <<start_event, end_event, max_steps, complete_paths, key_result>>

stepVars == <<item_order, item_queue, call_stack>>

jobVars == <<request, handler_pc, task_pc, analysis, result_data,
             terminal_writes, response>>

vars == <<pc, funnelVars, journeyVars, attrVars, layoutVars, mineVars,
          ruleVars, pathVars, clusterVars, keyVars, stepVars, jobVars>>

\* A value for the variables a specification does not use.
Idle == <<>>

FunnelIdle ==
    /\ user_paths = Idle /\ user_timestamps = Idle /\ funnel_steps = Idle
    /\ time_window = Idle /\ fstep = 0 /\ step_users = Idle
    /\ step_times = Idle /\ results = Idle

JourneyIdle ==
    /\ df = {} /\ conversion_col = "None" /\ conversion_value_col = "None"
    /\ pending_users = {}

AttrIdle == user_journeys = Idle /\ models = Idle

LayoutIdle == first_column = "None" /\ event_time_column = "None"

MineIdle ==
    /\ sequences = Idle /\ min_support = 0 /\ max_pattern_length = 0
    /\ frequent_patterns = Idle

RuleIdle == min_confidence = 0 /\ association_rules = Idle

PathIdle ==
    /\ path_groups = Idle /\ max_path_length = 0 /\ min_user_count = 0
    /\ path_result = Idle

ClusterIdle ==
    /\ feature_rows = Idle /\ selected_features = Idle
    /\ requested_clusters = 0 /\ n_clusters = 0
    /\ labels = Idle /\ cluster_result = Idle

KeyIdle ==
    /\ start_event = "None" /\ end_event = "None" /\ max_steps = 0
    /\ complete_paths = Idle /\ key_result = Idle

StepIdle == item_order = Idle /\ item_queue = Idle /\ call_stack = Idle

JobIdle ==
    /\ request = Idle /\ handler_pc = "idle" /\ task_pc = "idle"
    /\ analysis = Idle /\ result_data = Idle /\ terminal_writes = 0
    /\ response = Idle

----------------------------------------------------------------------------
(* Bounds of the model *)

MaxUsers == 2
MaxEvents == 3
MaxGap == 1
MaxSteps == 2
MaxWindow == 1
MaxRows == 3
MaxTime == 1
MaxValue == 2
MaxJourneys == 2
MaxTouches == 7
MaxHalfLives == 1
GuardDigits == 2
SupportSteps == 4
MaxPatternLength == 3
ConfidenceSteps == 4
MaxGroups == 2
MaxGroupUsers == 2
GroupScale == 200
MaxMinUsers == 3
MaxClusterUsers == 4
MaxClusters == 5
MaxPathEvents == 4

----------------------------------------------------------------------------
(* Generic helpers: Python list and number primitives *)

\* x in lst
Contains(lst, x) == \E k \in 1..Len(lst) : lst[k] = x

\* lst.index(x): position of the first occurrence (1-based here)
IndexOf(lst, x) ==
    CHOOSE k \in 1..Len(lst) :
        lst[k] = x /\ \A j \in 1..(k - 1) : lst[j] # x

\* All sequences over S of length lo..hi
SeqsOf(S, lo, hi) == UNION {[1..n -> S] : n \in lo..hi}

\* round(n / d * scale) for d > 0, half-to-even: Python's round(x, k) with
\* scale = 10^k, the result counted in units of 1/scale.
RoundDiv(n, d) ==
    LET q == n \div d
        r == n % d
    IN  IF 2 * r > d THEN q + 1
        ELSE IF 2 * r < d THEN q
        ELSE IF q % 2 = 0 THEN q ELSE q + 1

RECURSIVE SumOver(_, _)
\* sum(f[x] for x in S)
SumOver(f, S) ==
    IF S = {} THEN 0
    ELSE LET x == CHOOSE y \in S : TRUE
         IN  f[x] + SumOver(f, S \ {x})

Min(a, b) == IF a < b THEN a ELSE b

RECURSIVE Concat(_)
\* The concatenation of a list of lists
Concat(lists) ==
    IF Len(lists) = 0 THEN <<>>
    ELSE Concat(SubSeq(lists, 1, Len(lists) - 1)) \o lists[Len(lists)]

RECURSIVE Dedupe(_)
\* The distinct elements of a list in order of first appearance: the keys
\* of a Counter or dict filled from the list
Dedupe(lst) ==
    IF Len(lst) = 0 THEN <<>>
    ELSE LET front == Dedupe(SubSeq(lst, 1, Len(lst) - 1))
             x == lst[Len(lst)]
         IN  IF Contains(front, x) THEN front ELSE Append(front, x)

\* Every order in which a set can be iterated
Orders(S) ==
    {f \in [1..Cardinality(S) -> S] :
        \A k1, k2 \in DOMAIN f : k1 # k2 => f[k1] # f[k2]}

RECURSIVE Pow(_, _)
Pow(b, k) == IF k = 0 THEN 1 ELSE b * Pow(b, k - 1)

\* <<quotient, remainder>> of a * 10^k / d by long division, for a >= 0 and
\* d > 0; no intermediate product exceeds 10 * d.
RECURSIVE LongDiv(_, _, _)
LongDiv(a, d, k) ==
    IF k = 0 THEN <<a \div d, a % d>>
    ELSE LET p == LongDiv(a, d, k - 1)
         IN  <<p[1] * 10 + (p[2] * 10) \div d, (p[2] * 10) % d>>

\* round(a / d, k) in units of 10^-k, half-to-even
RoundScaled(a, d, k) ==
    LET p == LongDiv(a, d, k)
    IN  IF 2 * p[2] > d THEN p[1] + 1
        ELSE IF 2 * p[2] < d THEN p[1]
        ELSE IF p[1] % 2 = 0 THEN p[1] ELSE p[1] + 1

----------------------------------------------------------------------------
(* PathAnalysisService.funnel_analysis *)

Events == {"A", "B"}

\* Timestamp lists the sort of line 41 can produce: non-decreasing, the gap
\* between consecutive rows of a user being 0..MaxGap hours.
RECURSIVE Accumulate(_)
Accumulate(gaps) ==
    IF Len(gaps) = 0 THEN <<>>
    ELSE LET front == Accumulate(SubSeq(gaps, 1, Len(gaps) - 1))
         IN  Append(front,
                    (IF Len(front) = 0 THEN 0 ELSE front[Len(front)])
                        + gaps[Len(gaps)])

TimestampLists(n) ==
    {Accumulate(<<0>> \o g) : g \in [1..(n - 1) -> 0..MaxGap]}

\* `if time_window` at line 70: None and 0 are both falsy
WindowTruthy(tw) == tw # <<>> /\ tw[1] # 0

\* Lines 66-80, the branch taken under a truthy window for step i > 0:
\* the user is counted iff the previous label is present, the first
\* occurrence of the step is after the first occurrence of the previous
\* step, and the time between those two rows is within the window.
TimeDiff(ts, event_idx, prev_idx) == ts[event_idx] - ts[prev_idx]

HasTransition(events, steps, i) ==
    /\ i > 1
    /\ Contains(events, steps[i])
    /\ Contains(events, steps[i - 1])
    /\ IndexOf(events, steps[i]) > IndexOf(events, steps[i - 1])

TransitionTime(events, ts, steps, i) ==
    TimeDiff(ts, IndexOf(events, steps[i]), IndexOf(events, steps[i - 1]))

UseWindow(tw, i) == WindowTruthy(tw) /\ i > 1

CountedAtStep(events, ts, steps, tw, i) ==
    /\ Contains(events, steps[i])
    /\ IF UseWindow(tw, i)
       THEN /\ HasTransition(events, steps, i)
            /\ TransitionTime(events, ts, steps, i) <= tw[1]
       ELSE TRUE

\* Users whose transition time is appended to step_times[i]
TimedAtStep(events, ts, steps, tw, i) ==
    /\ CountedAtStep(events, ts, steps, tw, i)
    /\ HasTransition(events, steps, i)

\* Lines 93-106: conversion and drop-off of step i, before rounding, as
\* the pair <<numerator, denominator>> of a percentage.
ConversionPairMut(i, users, prev_users) ==
    IF prev_users > 0 THEN <<users * 100, prev_users>> ELSE <<0, 1>>

ConversionPair(i, users, prev_users) ==
    IF i = 1 THEN <<100, 1>>
    ELSE IF prev_users > 0 THEN <<users * 100, prev_users>>
    ELSE <<0, 1>>

DropOffPair(i, users, prev_users) ==
    IF i = 1 THEN <<0, 1>>
    ELSE IF prev_users > 0 THEN <<(prev_users - users) * 100, prev_users>>
    ELSE <<100, 1>>

\* round(p, 2) of a percentage pair, in hundredths of a percent
Round2(pair) == RoundDiv(pair[1] * 100, pair[2])

\* Lines 108-117: one entry of results["funnel_steps"]
StepResult(i) ==
    LET users == Cardinality(step_users[i])
        prev_users == IF i = 1 THEN 0 ELSE Cardinality(step_users[i - 1])
        timed == DOMAIN step_times[i]
    IN  [step |-> i,
         name |-> funnel_steps[i],
         users |-> users,
         conversion_rate |-> Round2(ConversionPair(i, users, prev_users)),
         drop_off_rate |-> Round2(DropOffPair(i, users, prev_users)),
         avg_time_from_prev |->
             IF timed = {} THEN 0
             ELSE RoundDiv(SumOver(step_times[i], timed) * 100,
                           Cardinality(timed))]

\* Lines 119-125
OverallRate(steps_out) ==
    LET first == steps_out[1].users
        last == steps_out[Len(steps_out)].users
    IN  IF first > 0 THEN RoundDiv(last * 10000, first) ELSE 0

InitFunnel ==
    /\ pc = "scan"
    /\ \E p \in UNION {[1..n -> SeqsOf(Events, 1, MaxEvents)] : n \in 1..MaxUsers} :
        /\ user_paths = p
        /\ user_timestamps \in
              {t \in [DOMAIN p -> UNION {TimestampLists(k) : k \in 1..MaxEvents}] :
                  \A u \in DOMAIN p : Len(t[u]) = Len(p[u])}
    /\ funnel_steps \in SeqsOf(Events, 1, MaxSteps)
    /\ time_window \in {<<>>} \cup {<<h>> : h \in 0..MaxWindow}
    /\ fstep = 1
    /\ step_users = <<>>
    /\ step_times = <<>>
    /\ results = Idle
    /\ JourneyIdle /\ AttrIdle /\ LayoutIdle /\ MineIdle
    /\ RuleIdle /\ PathIdle /\ ClusterIdle /\ KeyIdle
    /\ StepIdle
    /\ JobIdle

\* One iteration of the loop of lines 60-90: scan every user for step fstep
ScanStep ==
    /\ pc = "scan"
    /\ fstep <= Len(funnel_steps)
    /\ LET i == fstep
           counted == {u \in DOMAIN user_paths :
                          CountedAtStep(user_paths[u], user_timestamps[u],
                                        funnel_steps, time_window, i)}
           timed == {u \in DOMAIN user_paths :
                          TimedAtStep(user_paths[u], user_timestamps[u],
                                      funnel_steps, time_window, i)}
       IN  /\ step_users' = Append(step_users, counted)
           /\ step_times' = Append(step_times,
                  [u \in timed |->
                      TransitionTime(user_paths[u], user_timestamps[u],
                                     funnel_steps, i)])
    /\ fstep' = fstep + 1
    /\ UNCHANGED <<pc, user_paths, user_timestamps, funnel_steps,
                   time_window, results, journeyVars, attrVars,
                   layoutVars, mineVars,
                   ruleVars, pathVars, clusterVars, keyVars,
                   stepVars,
                   jobVars>>

\* Lines 92-127: the rates of every step and the overall rate
ReportFunnel ==
    /\ pc = "scan"
    /\ fstep > Len(funnel_steps)
    /\ LET steps_out == [i \in 1..Len(funnel_steps) |-> StepResult(i)]
       IN  results' = [funnel_steps |-> steps_out,
                       total_users |-> Cardinality(DOMAIN user_paths),
                       overall_conversion_rate |-> OverallRate(steps_out)]
    /\ pc' = "reported"
    /\ UNCHANGED <<user_paths, user_timestamps, funnel_steps, time_window,
                   fstep, step_users, step_times, journeyVars, attrVars,
                   layoutVars, mineVars,
                   ruleVars, pathVars, clusterVars, keyVars,
                   stepVars,
                   jobVars>>

NextFunnel == ScanStep \/ ReportFunnel

SpecFunnel == InitFunnel /\ [][NextFunnel]_vars

----------------------------------------------------------------------------
(* Properties of funnel_analysis *)

\* Steps whose user set the first loop has already filled
Scanned == 1..Len(step_users)

\* C1: in every funnel result the first step reports conversion_rate
\* exactly 100 and drop_off_rate exactly 0, also when no user reached it.
C1_FirstStepRates ==
    pc = "reported" =>
        /\ results.funnel_steps[1].conversion_rate = 10000
        /\ results.funnel_steps[1].drop_off_rate = 0

\* C1 witness: a reported funnel of two steps whose first step no user
\* reached.
C1_Witness ==
    /\ pc = "reported"
    /\ Len(funnel_steps) = 2
    /\ results.funnel_steps[1].users = 0
    /\ results.funnel_steps[2].users > 0

\* The step-i label occurs in the user's events after the first occurrence
\* of the step-(i-1) label.
OccursAfterPrevious(events, steps, i) ==
    /\ Contains(events, steps[i - 1])
    /\ \E k \in 1..Len(events) :
          k > IndexOf(events, steps[i - 1]) /\ events[k] = steps[i]

\* C2: for every step i > 0 a user is counted at step i only if the step-i
\* label occurs in the user's events after the first occurrence of the
\* step-(i-1) label, with and without a time window.
C2_CountedOnlyAfterPrevious ==
    \A i \in Scanned \ {1} : \A u \in step_users[i] :
        OccursAfterPrevious(user_paths[u], funnel_steps, i)

\* C3, the window part: under a configured window (any value but None) a
\* user who made the transition from step i-1 to step i is counted at step
\* i exactly when the elapsed time does not exceed the window.
WindowHonoured ==
    time_window # <<>> =>
        \A i \in Scanned \ {1} : \A u \in DOMAIN user_paths :
            HasTransition(user_paths[u], funnel_steps, i) =>
                (u \in step_users[i] <=>
                    TransitionTime(user_paths[u], user_timestamps[u],
                                   funnel_steps, i) <= time_window[1])

\* C3, the second part: scanning a step leaves the sets of the earlier
\* steps as they were.
EarlierStepsKept ==
    \A j \in Scanned : j \in 1..Len(step_users') /\ step_users'[j] = step_users[j]

\* C3: for every configured time_window and every step i > 0, a user whose
\* elapsed time from step i-1 to step i exceeds the window is excluded from
\* step i, one within the window is included, and no exclusion removes the
\* user from an earlier step.
C3_WindowExcludesLateUsers == []WindowHonoured /\ [][EarlierStepsKept]_vars

\* 100 percent, in the hundredths of a percent that round(x, 2) keeps
Percent100 == 100 * 100

\* C27: in every funnel result the step user sets are nested (each user
\* counted at step i > 0 is counted at step i-1), so the user counts never
\* increase from one step to the next, every conversion_rate and every
\* drop_off_rate lies in [0, 100], and overall_conversion_rate is at most
\* 100.
C27_StepSetsNestedRatesBounded ==
    pc = "reported" =>
        LET out == results.funnel_steps
        IN  /\ \A i \in 2..Len(out) :
                  /\ step_users[i] \subseteq step_users[i - 1]
                  /\ out[i].users <= out[i - 1].users
            /\ \A i \in 1..Len(out) :
                  /\ out[i].conversion_rate \in 0..Percent100
                  /\ out[i].drop_off_rate \in 0..Percent100
            /\ results.overall_conversion_rate <= Percent100

----------------------------------------------------------------------------
(* AttributionService._build_user_journeys *)

Touchpoints == {"a", "b"}

\* A column argument: not given, or a name the table has or lacks
ColumnArgs == {"None", "present", "absent"}

Rows ==
    [user_id : 1..MaxUsers, touchpoint : Touchpoints, timestamp : 0..MaxTime,
     conversion : BOOLEAN, value : 1..MaxValue]

\* Tables of 1..MaxRows distinct rows
Tables == UNION {{{f[k] : k \in 1..n} : f \in [1..n -> Rows]} : n \in 1..MaxRows}

\* user_df.sort_values(timestamp_col), line 122: every arrangement of the
\* group's rows in non-decreasing timestamp order (the default sort is not
\* stable, so rows of equal timestamp may come out in any order).
SortValues(group) ==
    {s \in [1..Cardinality(group) -> group] :
        /\ \A k1, k2 \in DOMAIN s : k1 # k2 => s[k1] # s[k2]
        /\ \A k \in 1..(Len(s) - 1) : s[k].timestamp <= s[k + 1].timestamp}

Column(user_df, field) == [k \in DOMAIN user_df |-> user_df[k][field]]

\* Lines 129-133
ConvertedMut(user_df, conv_col) ==
    IF conv_col = "present"
    THEN \E k \in DOMAIN user_df : user_df[k].conversion
    ELSE TRUE

Converted(user_df, conv_col) ==
    IF conv_col = "present"
    THEN (IF Len(user_df) > 0 THEN user_df[Len(user_df)].conversion ELSE FALSE)
    ELSE TRUE

\* Lines 136-138
ConversionValue(user_df, value_col) ==
    IF value_col = "present"
    THEN (IF Len(user_df) > 0 THEN user_df[Len(user_df)].value ELSE 1)
    ELSE 1

\* Lines 141-148
Journey(user_id, user_df, conv_col, value_col) ==
    [user_id |-> user_id,
     touchpoints |-> Column(user_df, "touchpoint"),
     timestamps |-> Column(user_df, "timestamp"),
     converted |-> Converted(user_df, conv_col),
     conversion_value |->
         IF Converted(user_df, conv_col)
         THEN ConversionValue(user_df, value_col) ELSE 0,
     touchpoint_count |-> Len(user_df)]

InitJourney ==
    /\ pc = "grouping"
    /\ df \in Tables
    /\ conversion_col \in ColumnArgs
    /\ conversion_value_col \in ColumnArgs
    /\ pending_users = {r.user_id : r \in df}
    /\ user_journeys = <<>>
    /\ models = Idle
    /\ FunnelIdle /\ LayoutIdle /\ MineIdle
    /\ RuleIdle /\ PathIdle /\ ClusterIdle /\ KeyIdle
    /\ StepIdle
    /\ JobIdle

\* One iteration of the loop of lines 121-148: df.groupby yields the groups
\* in ascending key order.
BuildJourney ==
    /\ pc = "grouping"
    /\ pending_users # {}
    /\ LET user_id == CHOOSE u \in pending_users :
                          \A v \in pending_users : u <= v
           group == {r \in df : r.user_id = user_id}
       IN  /\ \E user_df \in SortValues(group) :
                  user_journeys' =
                      IF Len(user_df) > 0
                      THEN Append(user_journeys,
                                  Journey(user_id, user_df, conversion_col,
                                          conversion_value_col))
                      ELSE user_journeys
           /\ pending_users' = pending_users \ {user_id}
    /\ UNCHANGED <<pc, df, conversion_col, conversion_value_col, models,
                   funnelVars, layoutVars, mineVars,
                   ruleVars, pathVars, clusterVars, keyVars,
                   stepVars,
                   jobVars>>

\* Line 150
ReturnJourneys ==
    /\ pc = "grouping"
    /\ pending_users = {}
    /\ pc' = "journeys"
    /\ UNCHANGED <<funnelVars, journeyVars, attrVars, layoutVars, mineVars,
                   ruleVars, pathVars, clusterVars, keyVars,
                   stepVars,
                   jobVars>>


----------------------------------------------------------------------------
(* AttributionService: the six attribution models                          *)
(*                                                                         *)
(* A float is a fixed-point number of FP units: the digits round() keeps   *)
(* in the result plus GuardDigits more, so that every division rounds as   *)
(* floating-point division does, only more coarsely.                       *)

ValueDigits == 4
PctDigits == 2
max_touchpoints == 5

FP == Pow(10, ValueDigits + GuardDigits)

ModelNames ==
    {"first_touch", "last_touch", "linear", "time_decay", "position_based",
     "shapley"}

Value(journey) == journey.conversion_value * FP

\* Lines 157-160: the credit of each credited position of one journey
FirstTouchCredits(journey) == [k \in {1} |-> Value(journey)]

\* Lines 169-172
LastTouchCredits(journey) ==
    [k \in {Len(journey.touchpoints)} |-> Value(journey)]

\* Lines 181-185
LinearCredits(journey) ==
    LET n == Len(journey.touchpoints)
    IN  [k \in 1..n |-> RoundDiv(Value(journey), n)]

\* Lines 201-215.  Timestamps are counted in half-lives, so the weight
\* exp(-lambda * days_before) of a touchpoint is 2^-(t_last - t); the
\* weights are kept as the integers 2^(t - t_first), which has the same
\* ratios weight / total_weight.
TimeDecayCredits(journey) ==
    LET ts == journey.timestamps
        n == Len(ts)
        weights == [k \in 1..n |-> Pow(2, ts[k] - ts[1])]
        total_weight == SumOver(weights, 1..n)
    IN  [k \in 1..n |->
            journey.conversion_value
                * RoundScaled(weights[k], total_weight,
                              ValueDigits + GuardDigits)]

\* Lines 228-245
PositionBasedCreditsMut(journey) ==
    LET n == Len(journey.touchpoints)
        v == Value(journey)
    IN  IF n = 1 THEN [k \in 1..n |-> v]
        ELSE [k \in 1..n |->
                IF k = 1 \/ k = n THEN (v * 4) \div 10
                ELSE RoundDiv((v * 2) \div 10, n - 2)]

PositionBasedCredits(journey) ==
    LET n == Len(journey.touchpoints)
        v == Value(journey)
    IN  IF n = 1 THEN [k \in 1..n |-> v]
        ELSE IF n = 2 THEN [k \in 1..n |-> (v * 5) \div 10]
        ELSE [k \in 1..n |->
                IF k = 1 \/ k = n THEN (v * 4) \div 10
                ELSE RoundDiv((v * 2) \div 10, n - 2)]

\* Lines 262-273
ShapleyCreditsMut(journey) ==
    LET n == Min(Len(journey.touchpoints), max_touchpoints)
    IN  [k \in 1..n |-> RoundDiv(Value(journey), Len(journey.touchpoints))]

ShapleyCredits(journey) ==
    LET n == Min(Len(journey.touchpoints), max_touchpoints)
    IN  [k \in 1..n |-> RoundDiv(Value(journey), n)]

Credits(model, journey) ==
    CASE model = "first_touch" -> FirstTouchCredits(journey)
      [] model = "last_touch" -> LastTouchCredits(journey)
      [] model = "linear" -> LinearCredits(journey)
      [] model = "time_decay" -> TimeDecayCredits(journey)
      [] model = "position_based" -> PositionBasedCredits(journey)
      [] model = "shapley" -> ShapleyCredits(journey)

\* The loop `for journey in user_journeys` of every model: the dict that
\* accumulates the credits of the converted journeys by touchpoint label.
Attribution(model, journeys) ==
    LET conv == {j \in 1..Len(journeys) :
                    journeys[j].converted /\ Len(journeys[j].touchpoints) > 0}
        credit == [j \in conv |-> Credits(model, journeys[j])]
        keys == UNION {{journeys[j].touchpoints[k] : k \in DOMAIN credit[j]}
                          : j \in conv}
        CreditTo(j, t) ==
            SumOver(credit[j],
                    {k \in DOMAIN credit[j] : journeys[j].touchpoints[k] = t})
    IN  [t \in keys |-> SumOver([j \in conv |-> CreditTo(j, t)], conv)]

\* Lines 283-295
NormalizeAttribution(attribution) ==
    LET total == SumOver(attribution, DOMAIN attribution)
    IN  IF total = 0 THEN <<>>
        ELSE [t \in DOMAIN attribution |->
                [value |-> RoundDiv(attribution[t], Pow(10, GuardDigits)),
                 percentage |->
                     RoundScaled(attribution[t], total, 2 + PctDigits)]]

\* Journeys as _build_user_journeys returns them: at least one touchpoint,
\* timestamps ascending (here evenly spaced), value 0 unless converted.
JourneysOfLength(n) ==
    {[user_id |-> 0, touchpoints |-> tp,
      timestamps |-> [k \in 1..n |-> (k - 1) * gap],
      converted |-> cv[1], conversion_value |-> cv[2],
      touchpoint_count |-> n] :
        tp \in [1..n -> Touchpoints],
        gap \in 0..MaxHalfLives,
        cv \in {<<FALSE, 0>>} \cup {<<TRUE, v>> : v \in 0..MaxValue}}

InitAttr ==
    /\ pc = "journeys"
    /\ \E count \in 1..MaxJourneys :
          \E lens \in [1..count -> 1..MaxTouches] :
              /\ SumOver(lens, 1..count) <= MaxTouches
              /\ \E js \in [1..count ->
                              UNION {JourneysOfLength(lens[j]) : j \in 1..count}] :
                    /\ \A j \in 1..count : js[j].touchpoint_count = lens[j]
                    /\ user_journeys = [j \in 1..count |->
                                           [js[j] EXCEPT !.user_id = j]]
    /\ models = Idle
    /\ FunnelIdle /\ JourneyIdle /\ LayoutIdle /\ MineIdle
    /\ RuleIdle /\ PathIdle /\ ClusterIdle /\ KeyIdle
    /\ StepIdle
    /\ JobIdle

\* attribution_analysis, lines 81-102: every model over the journeys
Attribute ==
    /\ pc = "journeys"
    /\ user_journeys # <<>>
    /\ models' = [m \in ModelNames |->
                     NormalizeAttribution(Attribution(m, user_journeys))]
    /\ pc' = "attributed"
    /\ UNCHANGED <<user_journeys, funnelVars, journeyVars, layoutVars,
                   mineVars,
                   ruleVars, pathVars, clusterVars, keyVars,
                   stepVars,
                   jobVars>>

NextAttr == Attribute

SpecAttr == InitAttr /\ [][NextAttr]_vars

----------------------------------------------------------------------------
(* Properties of the attribution models *)

Abs(x) == IF x < 0 THEN -x ELSE x

\* Sum of `value` over the touchpoints of one model's result
CreditedValue(result) ==
    SumOver([t \in DOMAIN result |-> result[t].value], DOMAIN result)

\* Sum of conversion_value over the converted journeys, in units of
\* 10^-ValueDigits
ConvertedValue ==
    LET conv == {j \in 1..Len(user_journeys) : user_journeys[j].converted}
    IN  SumOver([j \in conv |-> user_journeys[j].conversion_value], conv)
            * Pow(10, ValueDigits)

\* The rounding tolerance 1e-2, in units of 10^-ValueDigits
Tolerance == Pow(10, ValueDigits - 2)

PositionShare(n, k) ==
    IF n = 1 THEN <<1, 1>>
    ELSE IF n = 2 THEN <<1, 2>>
    ELSE IF k = 1 \/ k = n THEN <<2 * (n - 2), 5 * (n - 2)>>
    ELSE <<1, 5 * (n - 2)>>

\* The share of a touchpoint label: the sum over the positions it holds
LabelShare(touchpoints, t) ==
    LET n == Len(touchpoints)
        at == {k \in 1..n : touchpoints[k] = t}
    IN  <<SumOver([k \in at |-> PositionShare(n, k)[1]], at),
          PositionShare(n, 1)[2]>>

\* C5: position-based attribution of one converted journey credits 100% of
\* the value to a single touchpoint, 50% to each of two, and with n >= 3
\* touchpoints 40% to the first, 40% to the last and 20%/(n-2) to each
\* interior one (a label's credit is the sum over its positions).
C5_PositionBasedShares ==
    (/\ pc = "attributed"
     /\ Len(user_journeys) = 1
     /\ user_journeys[1].converted
     /\ user_journeys[1].conversion_value > 0) =>
        LET j == user_journeys[1]
            res == models["position_based"]
        IN  /\ DOMAIN res = {j.touchpoints[k] : k \in 1..Len(j.touchpoints)}
            /\ \A t \in DOMAIN res :
                  LET share == LabelShare(j.touchpoints, t)
                  IN  /\ res[t].value =
                            RoundScaled(j.conversion_value * share[1],
                                        share[2], ValueDigits)
                      /\ res[t].percentage =
                            RoundScaled(share[1], share[2], 2 + PctDigits)

\* C5 witness: one converted journey of four touchpoints whose two interior
\* touchpoints carry a label of their own, credited 10% each.
C5_Witness ==
    /\ pc = "attributed"
    /\ Len(user_journeys) = 1
    /\ user_journeys[1].converted
    /\ user_journeys[1].conversion_value = 1
    /\ user_journeys[1].touchpoints = <<"a", "b", "b", "a">>
    /\ models["position_based"]["b"].percentage = 20 * Pow(10, PctDigits)

\* The converted journeys whose touchpoints, cut to max_touchpoints, hold
\* the label
ConvertedWith(t) ==
    {j \in 1..Len(user_journeys) :
        /\ user_journeys[j].converted
        /\ \E k \in 1..Min(Len(user_journeys[j].touchpoints), max_touchpoints) :
              user_journeys[j].touchpoints[k] = t}

\* conversion_value / journey length after the cut, in FP units
ValuePerTouch(j) ==
    RoundDiv(Value(user_journeys[j]),
             Min(Len(user_journeys[j].touchpoints), max_touchpoints))

\* The average of ValuePerTouch over the journeys of ConvertedWith(t)
AverageValuePerTouch(t) ==
    RoundDiv(SumOver([j \in ConvertedWith(t) |-> ValuePerTouch(j)],
                     ConvertedWith(t)),
             Cardinality(ConvertedWith(t)))

\* C26: in Shapley attribution each touchpoint's credit is the average,
\* over all converted journeys in which it appears, of conversion_value
\* divided by the journey's length after truncation to max_touchpoints
\* (to the last digit round() keeps).
C26_ShapleyCreditIsAverage ==
    pc = "attributed" =>
        \A t \in DOMAIN models["shapley"] :
            Abs(models["shapley"][t].value * Pow(10, GuardDigits)
                    - AverageValuePerTouch(t)) <= Pow(10, GuardDigits)

----------------------------------------------------------------------------
(* attribution_analysis over a table: the journeys, then the models *)

NextJourney == BuildJourney \/ ReturnJourneys \/ Attribute

SpecJourney == InitJourney /\ [][NextJourney]_vars

----------------------------------------------------------------------------
(* Properties of _build_user_journeys *)

\* The rows of a user that can stand last in ascending timestamp order
LastRows(user_id) ==
    {r \in df : /\ r.user_id = user_id
                /\ \A q \in df : q.user_id = user_id
                                    => q.timestamp <= r.timestamp}

\* C6: with a conversion column, a user's converted flag is the column's
\* value on the user's last row in ascending timestamp order, not "true on
\* any row"; the conversion value is the value column on that same row, 1
\* without a value column, and 0 whenever the user is not converted.
C6_ConvertedFromLastRow ==
    conversion_col = "present" =>
        \A k \in 1..Len(user_journeys) :
            LET j == user_journeys[k]
            IN  \E r \in LastRows(j.user_id) :
                    /\ j.touchpoints[Len(j.touchpoints)] = r.touchpoint
                    /\ j.converted = r.conversion
                    /\ j.conversion_value =
                          IF ~r.conversion THEN 0
                          ELSE IF conversion_value_col = "present" THEN r.value
                          ELSE 1

\* C6 witness: a built journey of a user who has the conversion flag set on
\* an earlier row and cleared on the last one, with a value column.
C6_Witness ==
    /\ pc = "journeys"
    /\ conversion_col = "present"
    /\ conversion_value_col = "present"
    /\ \E k \in 1..Len(user_journeys) :
          /\ ~user_journeys[k].converted
          /\ user_journeys[k].conversion_value = 0
          /\ \E r \in df : /\ r.user_id = user_journeys[k].user_id
                           /\ r.conversion
                           /\ r \notin LastRows(r.user_id)

\* C21: when a column named in the request (here the given conversion or
\* conversion-value column) is absent from the dataset, the operation fails
\* with a missing-column error and produces no analysis result; it never
\* proceeds as if the column had not been requested: no journeys are
\* returned and no model is computed.
C21_MissingColumnFails ==
    (conversion_col = "absent" \/ conversion_value_col = "absent") =>
        /\ pc \notin {"journeys", "attributed"}
        /\ models = Idle

----------------------------------------------------------------------------
(* SequenceMiningService._build_sequences *)

Roles == {"user_id", "event", "timestamp"}

EventRank == [e \in Events |-> IF e = "A" THEN 1 ELSE 2]

SeqRows ==
    [user_id : 1..MaxUsers, event : Events, timestamp : 0..MaxTime,
     conversion : BOOLEAN]

SeqTables ==
    UNION {{{f[k] : k \in 1..n} : f \in [1..n -> SeqRows]} : n \in 1..MaxRows}

\* Line 106: the column the groups are sorted by is the one named
\* 'event_time' if the table has one, else the table's column 0.
SortColumn(first, event_time) ==
    IF event_time # "None" THEN event_time ELSE first

SortKey(row, column) ==
    IF column = "event" THEN EventRank[row.event] ELSE row[column]

\* user_df.sort_values(column): every arrangement of the group's rows that
\* is non-decreasing in the column (the default sort is not stable).
SortValuesBy(group, column) ==
    {s \in Orders(group) :
        \A k \in 1..(Len(s) - 1) :
            SortKey(s[k], column) <= SortKey(s[k + 1], column)}

\* Lines 107-120
SequenceRecord(user_id, user_df, conv_col) ==
    [user_id |-> user_id,
     events |-> Column(user_df, "event"),
     converted |->
         IF conv_col = "present"
         THEN (IF Len(user_df) > 0 THEN user_df[Len(user_df)].conversion
               ELSE FALSE)
         ELSE FALSE,
     length |-> Len(user_df)]

InitBuildSeq ==
    /\ pc = "grouping"
    /\ df \in SeqTables
    /\ first_column \in Roles
    /\ event_time_column \in Roles \cup {"None"}
    /\ conversion_col \in ColumnArgs
    /\ conversion_value_col = "None"
    /\ pending_users = {r.user_id : r \in df}
    /\ sequences = <<>>
    /\ min_support = 0 /\ max_pattern_length = 0 /\ frequent_patterns = Idle
    /\ FunnelIdle /\ AttrIdle
    /\ RuleIdle /\ PathIdle /\ ClusterIdle /\ KeyIdle
    /\ StepIdle
    /\ JobIdle

\* One iteration of the loop of lines 105-120
BuildSequence ==
    /\ pc = "grouping"
    /\ pending_users # {}
    /\ LET user_id == CHOOSE u \in pending_users :
                          \A v \in pending_users : u <= v
           group == {r \in df : r.user_id = user_id}
           column == SortColumn(first_column, event_time_column)
       IN  /\ \E user_df \in SortValuesBy(group, column) :
                  sequences' =
                      IF Len(user_df) > 0
                      THEN Append(sequences,
                                  SequenceRecord(user_id, user_df,
                                                 conversion_col))
                      ELSE sequences
           /\ pending_users' = pending_users \ {user_id}
    /\ UNCHANGED <<pc, df, conversion_col, conversion_value_col, funnelVars,
                   attrVars, layoutVars, min_support, max_pattern_length,
                   frequent_patterns,
                   ruleVars, pathVars, clusterVars, keyVars,
                   stepVars,
                   jobVars>>

\* Line 122
ReturnSequences ==
    /\ pc = "grouping"
    /\ pending_users = {}
    /\ pc' = "sequences"
    /\ UNCHANGED <<funnelVars, journeyVars, attrVars, layoutVars, mineVars,
                   ruleVars, pathVars, clusterVars, keyVars,
                   stepVars,
                   jobVars>>

NextBuildSeq == BuildSequence \/ ReturnSequences

SpecBuildSeq == InitBuildSeq /\ [][NextBuildSeq]_vars

----------------------------------------------------------------------------
(* Properties of _build_sequences *)

\* C7: every user's event sequence handed to the miners is ordered by
\* non-decreasing timestamp, whatever the table's first column is and
\* whether or not it has a column named event_time: the events are those
\* of some arrangement of the user's rows in ascending timestamp order.
C7_SequencesTimeOrdered ==
    \A k \in 1..Len(sequences) :
        \E s \in SortValuesBy({r \in df : r.user_id = sequences[k].user_id},
                              "timestamp") :
            sequences[k].events = Column(s, "event")

----------------------------------------------------------------------------
(* SequenceMiningService._prefixspan_mining *)

MineEvents == {"A", "B", "C"}

SupportDigits == 4
TopPatterns == 50

\* Line 133: int(min_support * total_sequences), min_support being
\* ms / SupportSteps
MinCount(ms, total) == (ms * total) \div SupportSteps

\* Lines 136-140
ItemCount(seqs, item) ==
    Cardinality({k \in 1..Len(seqs) : Contains(seqs[k].events, item)})

ItemsOf(seqs) ==
    UNION {{seqs[k].events[e] : e \in 1..Len(seqs[k].events)}
              : k \in 1..Len(seqs)}

\* Line 143
FrequentItems(seqs, min_count) ==
    {item \in ItemsOf(seqs) : ItemCount(seqs, item) >= min_count}

\* Lines 154-164: where the prefix first matches a run of consecutive events
MatchPositions(events, prefix) ==
    {i \in 1..(Len(events) - Len(prefix) + 1) :
        SubSeq(events, i, i + Len(prefix) - 1) = prefix}

\* Lines 148-165
ProjectDatabaseMut(seqs, prefix) ==
    Concat([k \in 1..Len(seqs) |->
        LET events == seqs[k].events
            at == MatchPositions(events, prefix)
        IN  IF at = {} THEN <<>>
            ELSE LET i == CHOOSE x \in at : \A y \in at : x <= y
                 IN  <<[user_id |-> seqs[k].user_id,
                        events |-> SubSeq(events, i, Len(events)),
                        converted |-> seqs[k].converted]>>])

ProjectDatabase(seqs, prefix) ==
    Concat([k \in 1..Len(seqs) |->
        LET events == seqs[k].events
            at == MatchPositions(events, prefix)
        IN  IF at = {} THEN <<>>
            ELSE LET i == CHOOSE x \in at : \A y \in at : x <= y
                     suffix == SubSeq(events, i + Len(prefix), Len(events))
                 IN  IF Len(suffix) > 0
                     THEN <<[user_id |-> seqs[k].user_id,
                             events |-> suffix,
                             converted |-> seqs[k].converted]>>
                     ELSE <<>>])

\* Lines 186-198 and 212-223.  The keys conversion_count and
\* conversion_rate are absent from the dict when no converted sequence
\* counts; they are 0 here, which is the default the sort key reads.
PatternInfo(pattern, count, total, converted_count) ==
    [pattern |-> pattern,
     support_count |-> count,
     support |-> RoundScaled(count, total, SupportDigits),
     length |-> Len(pattern),
     conversion_count |-> converted_count,
     conversion_rate |->
         IF converted_count > 0
         THEN RoundScaled(converted_count, count, SupportDigits) ELSE 0]

\* Lines 173-177: the projected sequences that start with the item
StartingWith(seqs, item) ==
    {k \in 1..Len(seqs) : Len(seqs[k].events) > 0 /\ seqs[k].events[1] = item}

\* Keys of suffix_counts in insertion order
SuffixItems(seqs) ==
    Dedupe(Concat([k \in 1..Len(seqs) |->
        IF Len(seqs[k].events) > 0 THEN <<seqs[k].events[1]>> ELSE <<>>]))

\* Line 169
TooLong(length, max_length) == length > max_length

RECURSIVE MineRecursive(_, _, _, _)
RECURSIVE MineItems(_, _, _, _, _)

\* Lines 167-205; p carries min_count, max_length and total_sequences.
\* The result is the list of patterns appended to frequent_patterns.
MineRecursive(seqs, prefix, length, p) ==
    IF TooLong(length, p.max_length) THEN <<>>
    ELSE MineItems(SuffixItems(seqs), seqs, prefix, length, p)

\* The loop of lines 180-205 over the remaining keys of suffix_counts
MineItems(items, seqs, prefix, length, p) ==
    IF Len(items) = 0 THEN <<>>
    ELSE LET item == Head(items)
             starting == StartingWith(seqs, item)
             count == Cardinality(starting)
             new_prefix == Append(prefix, item)
             converted_count ==
                 Cardinality({k \in starting : seqs[k].converted})
             projected == ProjectDatabase(seqs, <<item>>)
             found ==
                 IF count >= p.min_count
                 THEN <<PatternInfo(new_prefix, count, p.total,
                                    converted_count)>>
                      \o (IF Len(projected) > 0
                          THEN MineRecursive(projected, new_prefix,
                                             length + 1, p)
                          ELSE <<>>)
                 ELSE <<>>
         IN  found \o MineItems(Tail(items), seqs, prefix, length, p)

\* Lines 228-239: the suffixes after the first occurrence of the item
FirstProjection(seqs, item) ==
    Concat([k \in 1..Len(seqs) |->
        LET events == seqs[k].events
        IN  IF Contains(events, item) /\ IndexOf(events, item) + 1 <= Len(events)
            THEN <<[user_id |-> seqs[k].user_id,
                    events |-> SubSeq(events, IndexOf(events, item) + 1,
                                      Len(events)),
                    converted |-> seqs[k].converted]>>
            ELSE <<>>])

\* Lines 208-242, one iteration: the single-item pattern and all it grows to
MineFromItem(seqs, item, p) ==
    LET count == ItemCount(seqs, item)
        converted_count ==
            Cardinality({k \in 1..Len(seqs) :
                Contains(seqs[k].events, item) /\ seqs[k].converted})
        projected == FirstProjection(seqs, item)
    IN  <<PatternInfo(<<item>>, count, p.total, converted_count)>>
        \o (IF Len(projected) > 0
            THEN MineRecursive(projected, <<item>>, 2, p)
            ELSE <<>>)

\* Line 245: the sort key, compared as Python compares tuples
KeyAtLeast(x, y) ==
    \/ x.support > y.support
    \/ x.support = y.support /\ x.conversion_rate >= y.conversion_rate

\* list.sort(key=..., reverse=True): descending and stable
SortPatterns(lst) ==
    LET Ahead(i) ==
            Cardinality({j \in 1..Len(lst) :
                            \/ ~KeyAtLeast(lst[i], lst[j])
                            \/ KeyAtLeast(lst[i], lst[j])
                                  /\ KeyAtLeast(lst[j], lst[i]) /\ j < i})
    IN  [k \in 1..Len(lst) |->
            lst[CHOOSE i \in 1..Len(lst) : Ahead(i) = k - 1]]

\* Lines 129-247; `order` is the order in which the set frequent_items is
\* iterated at line 208.
PrefixspanMining(seqs, ms, max_length, order) ==
    IF Len(seqs) = 0 THEN <<>>
    ELSE LET p == [min_count |-> MinCount(ms, Len(seqs)),
                   max_length |-> max_length,
                   total |-> Len(seqs)]
             found == Concat([k \in 1..Len(order) |->
                                 MineFromItem(seqs, order[k], p)])
             sorted == SortPatterns(found)
         IN  SubSeq(sorted, 1, Min(TopPatterns, Len(sorted)))

\* Sequence databases as _build_sequences returns them: one record per
\* user, no empty event list.
InitMine ==
    /\ pc = "sequences"
    /\ \E count \in 1..MaxUsers :
          \E ev \in [1..count -> SeqsOf(MineEvents, 1, MaxEvents)] :
              \E conv \in [1..count -> BOOLEAN] :
                  sequences = [k \in 1..count |->
                                  [user_id |-> k, events |-> ev[k],
                                   converted |-> conv[k],
                                   length |-> Len(ev[k])]]
    /\ min_support \in 0..SupportSteps
    /\ max_pattern_length \in 0..MaxPatternLength
    /\ frequent_patterns = Idle
    /\ FunnelIdle /\ JourneyIdle /\ AttrIdle /\ LayoutIdle
    /\ RuleIdle /\ PathIdle /\ ClusterIdle /\ KeyIdle
    /\ StepIdle
    /\ JobIdle

\* sequence_pattern_mining, lines 62-74
Mine ==
    /\ pc = "sequences"
    /\ Len(sequences) > 0
    /\ \E order \in Orders(FrequentItems(sequences,
                                         MinCount(min_support, Len(sequences)))) :
          frequent_patterns' =
              PrefixspanMining(sequences, min_support, max_pattern_length,
                               order)
    /\ pc' = "mined"
    /\ UNCHANGED <<sequences, min_support, max_pattern_length, funnelVars,
                   journeyVars, attrVars, layoutVars,
                   ruleVars, pathVars, clusterVars, keyVars,
                   stepVars,
                   jobVars>>

NextMine == Mine

SpecMine == InitMine /\ [][NextMine]_vars

----------------------------------------------------------------------------
(* Properties of _prefixspan_mining *)

Reported == {frequent_patterns[k] : k \in 1..Len(frequent_patterns)}

\* C8: every reported pattern has support_count >= min_support * N, so a
\* single event that occurs in fewer than min_support * N users is never
\* reported.
C8_SupportAtLeastMinSupport ==
    pc = "mined" =>
        \A pat \in Reported :
            pat.support_count * SupportSteps >= min_support * Len(sequences)

RECURSIVE IsSubsequence(_, _)
\* The events of the pattern occur in the list in that order
IsSubsequence(pattern, events) ==
    IF Len(pattern) = 0 THEN TRUE
    ELSE IF Len(events) = 0 THEN FALSE
    ELSE IF Head(pattern) = Head(events)
         THEN IsSubsequence(Tail(pattern), Tail(events))
         ELSE IsSubsequence(pattern, Tail(events))

Containing(pattern) ==
    {k \in 1..Len(sequences) : IsSubsequence(pattern, sequences[k].events)}

\* C9: for every reported pattern, support_count is the number of user
\* sequences that contain the pattern's events in that order, and support
\* is support_count divided by the number of sequences.
C9_SupportCountsContainingSequences ==
    pc = "mined" =>
        \A pat \in Reported :
            /\ pat.support_count = Cardinality(Containing(pat.pattern))
            /\ pat.support =
                  RoundScaled(pat.support_count, Len(sequences), SupportDigits)

\* C10: no reported pattern is longer than max_pattern_length, for every
\* max_pattern_length.
C10_NoPatternLongerThanMax ==
    pc = "mined" =>
        \A pat \in Reported : pat.length <= max_pattern_length

\* C29: the list frequent pattern mining returns (which patterns survive
\* the cut and in which order) is a function of the sequences and the
\* parameters only: whatever the order in which the set of frequent single
\* items is iterated, the list is the same.
C29_ResultIndependentOfSetOrder ==
    pc = "mined" =>
        \A order \in Orders(FrequentItems(sequences,
                                          MinCount(min_support,
                                                   Len(sequences)))) :
            PrefixspanMining(sequences, min_support, max_pattern_length,
                             order) = frequent_patterns

----------------------------------------------------------------------------
(* SequenceMiningService._prefixspan_mining, call by call                  *)
(*                                                                         *)
(* The same function as above with the recursion spelled out: one action   *)
(* per iteration of the loop of line 208, per entry of mine_recursive, per *)
(* iteration of its loop of line 180 and per return.  call_stack holds one *)
(* frame per active call of mine_recursive.                                *)

\* The arguments of a call of mine_recursive (line 167) that has not run yet
Frame(seqs, prefix, length) ==
    [sequences |-> seqs, prefix |-> prefix, length |-> length,
     entered |-> FALSE, items |-> <<>>]

\* Lines 209-223: the pattern of a frequent single item
ItemPattern(seqs, item) ==
    PatternInfo(<<item>>, ItemCount(seqs, item), Len(seqs),
                Cardinality({k \in 1..Len(seqs) :
                    Contains(seqs[k].events, item) /\ seqs[k].converted}))

\* Lines 183-198: the pattern that extends the prefix of a call by an item
ExtendedPattern(frame, item, total) ==
    LET starting == StartingWith(frame.sequences, item)
    IN  PatternInfo(Append(frame.prefix, item), Cardinality(starting), total,
                    Cardinality({k \in starting :
                                    frame.sequences[k].converted}))

Top == call_stack[Len(call_stack)]

Pop == SubSeq(call_stack, 1, Len(call_stack) - 1)

\* Sequence databases as for InitMine, over two event labels and without
\* converted users (the conversion flags do not steer the recursion)
InitMineSteps ==
    /\ pc = "sequences"
    /\ \E count \in 1..MaxUsers :
          \E ev \in [1..count -> SeqsOf(Events, 1, MaxEvents)] :
              sequences = [k \in 1..count |->
                              [user_id |-> k, events |-> ev[k],
                               converted |-> FALSE,
                               length |-> Len(ev[k])]]
    /\ min_support \in 0..SupportSteps
    /\ max_pattern_length \in 0..MaxPatternLength
    /\ frequent_patterns = Idle
    /\ FunnelIdle /\ JourneyIdle /\ AttrIdle /\ LayoutIdle
    /\ RuleIdle /\ PathIdle /\ ClusterIdle /\ KeyIdle
    /\ StepIdle
    /\ JobIdle

\* Lines 129-146: the threshold and the frequent single items
StartMining ==
    /\ pc = "sequences"
    /\ Len(sequences) > 0
    /\ \E order \in Orders(FrequentItems(sequences,
                                         MinCount(min_support, Len(sequences)))) :
          /\ item_order' = order
          /\ item_queue' = order
    /\ frequent_patterns' = <<>>
    /\ call_stack' = <<>>
    /\ pc' = "mining"
    /\ UNCHANGED <<sequences, min_support, max_pattern_length, funnelVars,
                   journeyVars, attrVars, layoutVars, ruleVars, pathVars,
                   clusterVars, keyVars,
                   jobVars>>

\* Lines 208-242: one iteration of `for item in frequent_items`, up to the
\* call of mine_recursive
MineItem ==
    /\ pc = "mining"
    /\ call_stack = <<>>
    /\ item_queue # <<>>
    /\ LET item == Head(item_queue)
           projected == FirstProjection(sequences, item)
       IN  /\ frequent_patterns' =
                  Append(frequent_patterns, ItemPattern(sequences, item))
           /\ call_stack' = IF Len(projected) > 0
                            THEN <<Frame(projected, <<item>>, 2)>>
                            ELSE <<>>
    /\ item_queue' = Tail(item_queue)
    /\ UNCHANGED <<pc, item_order, sequences, min_support, max_pattern_length,
                   funnelVars, journeyVars, attrVars, layoutVars, ruleVars,
                   pathVars, clusterVars, keyVars,
                   jobVars>>

\* Lines 169-177: mine_recursive returns at once when the pattern would be
\* too long, and counts the first events of the sequences otherwise
EnterRecursive ==
    /\ pc = "mining"
    /\ call_stack # <<>>
    /\ ~Top.entered
    /\ call_stack' =
           IF TooLong(Top.length, max_pattern_length) THEN Pop
           ELSE Append(Pop, [Top EXCEPT !.entered = TRUE,
                                        !.items = SuffixItems(Top.sequences)])
    /\ UNCHANGED <<pc, item_order, item_queue, mineVars, funnelVars,
                   journeyVars, attrVars, layoutVars, ruleVars, pathVars,
                   clusterVars, keyVars,
                   jobVars>>

\* Lines 180-205: one iteration of `for item, count in suffix_counts.items()`
ExtendPrefix ==
    /\ pc = "mining"
    /\ call_stack # <<>>
    /\ Top.entered
    /\ Top.items # <<>>
    /\ LET item == Head(Top.items)
           rest == Append(Pop, [Top EXCEPT !.items = Tail(Top.items)])
           found == ExtendedPattern(Top, item, Len(sequences))
           projected == ProjectDatabase(Top.sequences, <<item>>)
       IN  IF found.support_count
                  >= MinCount(min_support, Len(sequences))
           THEN /\ frequent_patterns' = Append(frequent_patterns, found)
                /\ call_stack' =
                       IF Len(projected) > 0
                       THEN Append(rest, Frame(projected, found.pattern,
                                               Top.length + 1))
                       ELSE rest
           ELSE /\ frequent_patterns' = frequent_patterns
                /\ call_stack' = rest
    /\ UNCHANGED <<pc, item_order, item_queue, sequences, min_support,
                   max_pattern_length, funnelVars, journeyVars, attrVars,
                   layoutVars, ruleVars, pathVars, clusterVars, keyVars,
                   jobVars>>

\* The loop of line 180 is over: mine_recursive returns
ReturnRecursive ==
    /\ pc = "mining"
    /\ call_stack # <<>>
    /\ Top.entered
    /\ Top.items = <<>>
    /\ call_stack' = Pop
    /\ UNCHANGED <<pc, item_order, item_queue, mineVars, funnelVars,
                   journeyVars, attrVars, layoutVars, ruleVars, pathVars,
                   clusterVars, keyVars,
                   jobVars>>

\* Lines 245-247: the sort and the cut
SortAndCut ==
    /\ pc = "mining"
    /\ call_stack = <<>>
    /\ item_queue = <<>>
    /\ LET sorted == SortPatterns(frequent_patterns)
       IN  frequent_patterns' = SubSeq(sorted, 1, Min(TopPatterns, Len(sorted)))
    /\ pc' = "mined"
    /\ UNCHANGED <<item_order, item_queue, call_stack, sequences, min_support,
                   max_pattern_length, funnelVars, journeyVars, attrVars,
                   layoutVars, ruleVars, pathVars, clusterVars, keyVars,
                   jobVars>>

NextMineSteps ==
    \/ StartMining
    \/ MineItem
    \/ EnterRecursive
    \/ ExtendPrefix
    \/ ReturnRecursive
    \/ SortAndCut

\* The function runs in one thread that nothing suspends: a step that can
\* be taken is taken.
SpecMineSteps ==
    InitMineSteps /\ [][NextMineSteps]_vars /\ WF_vars(NextMineSteps)

----------------------------------------------------------------------------
(* Properties of _prefixspan_mining, call by call *)

\* The length of the longest list of events of a sequence database
Longest(seqs) ==
    IF Len(seqs) = 0 THEN 0
    ELSE LET k == CHOOSE k \in 1..Len(seqs) :
                     \A j \in 1..Len(seqs) :
                         Len(seqs[j].events) <= Len(seqs[k].events)
         IN  Len(seqs[k].events)

\* Each active call of mine_recursive works on suffixes strictly shorter
\* than those of its caller, so there are at most as many active calls as
\* the longest sequence has events.
SuffixesShrink ==
    pc = "mining" =>
        /\ \A k \in 1..Len(call_stack) :
              Longest(call_stack[k].sequences)
                  < (IF k = 1 THEN Longest(sequences)
                     ELSE Longest(call_stack[k - 1].sequences))
        /\ Len(call_stack) <= Longest(sequences)

\* The list mined call by call is the list PrefixspanMining computes
StepsAgreeWithMining ==
    pc = "mined" =>
        frequent_patterns = PrefixspanMining(sequences, min_support,
                                             max_pattern_length, item_order)

\* C28: frequent pattern mining terminates for every set of user sequences,
\* every min_support (also one whose count threshold is 0) and every
\* max_pattern_length: each recursive projection works on strictly shorter
\* suffixes, so the recursion depth is bounded by the longest sequence.
C28_MiningTerminates == []SuffixesShrink /\ <>(pc = "mined")

\* C28 witness: a mining with count threshold 0 that went two calls deep
\* and is about to return from the inner one.
C28_Witness ==
    /\ pc = "mining"
    /\ MinCount(min_support, Len(sequences)) = 0
    /\ Len(call_stack) = 2
    /\ Top.entered
    /\ Top.items = <<>>

----------------------------------------------------------------------------
(* SequenceMiningService._mine_association_rules *)

max_antecedent_len == 2
TopRules == 40

\* Line 262: int(min_support * total_sequences)
RuleMinCount(ms, total) == (ms * total) \div SupportSteps

\* Lines 265-269: the number of sequences that contain the item
ItemCounts(seqs) == [item \in ItemsOf(seqs) |-> ItemCount(seqs, item)]

\* Line 277: list(dict.fromkeys(events))
UniqueEvents(events) == Dedupe(events)

\* Lines 281-283: the pairs one sequence counts, in the order of the loops
PairsOf(u) ==
    Concat([i \in 1..Len(u) |->
        [d \in 1..(Len(u) - i) |-> <<u[i], u[i + d]>>]])

\* Lines 286-289: the triples one sequence counts
TriplesOf(u) ==
    Concat([i \in 1..Len(u) |->
        Concat([dj \in 1..(Len(u) - i) |->
            [dk \in 1..(Len(u) - i - dj) |->
                <<u[i], u[i + dj], u[i + dj + dk]>>]])])

\* The keys of pair_counts in insertion order
PairKeys(seqs) ==
    Dedupe(Concat([k \in 1..Len(seqs) |->
                      PairsOf(UniqueEvents(seqs[k].events))]))

\* The keys of triple_counts in insertion order
TripleKeys(seqs) ==
    Dedupe(Concat([k \in 1..Len(seqs) |->
                      TriplesOf(UniqueEvents(seqs[k].events))]))

\* pair_counts[key]; 0 for a key never counted (pair_counts.get(key, 0))
PairCount(seqs, key) ==
    Cardinality({k \in 1..Len(seqs) :
                    Contains(PairsOf(UniqueEvents(seqs[k].events)), key)})

\* triple_counts[key]
TripleCount(seqs, key) ==
    Cardinality({k \in 1..Len(seqs) :
                    Contains(TriplesOf(UniqueEvents(seqs[k].events)), key)})

\* Line 295 and 317: the support filter
MeetsSupport(count, min_count) == count >= min_count

\* Lines 299 and 323: confidence >= min_confidence, min_confidence being
\* mc / ConfidenceSteps
MeetsConfidence(count, base, mc) ==
    IF base > 0 THEN count * ConfidenceSteps >= mc * base ELSE mc <= 0

\* Lines 296-312 and 318-336: the dict of one rule.  support, confidence
\* and lift are round(x, 4), in units of 10^-4.
RuleRecord(antecedent, consequent, count, base, consequent_count, total) ==
    [antecedent |-> antecedent,
     consequent |-> consequent,
     support |-> RoundScaled(count, total, SupportDigits),
     confidence |->
         IF base > 0 THEN RoundScaled(count, base, SupportDigits) ELSE 0,
     lift |->
         IF base > 0
         THEN RoundScaled(count * total, base * consequent_count,
                          SupportDigits)
         ELSE 0,
     count |-> count]

\* Lines 294-312: the rules A -> B of the remaining keys of pair_counts
RECURSIVE SingleRules(_, _, _, _)
SingleRules(keys, seqs, min_count, mc) ==
    IF Len(keys) = 0 THEN <<>>
    ELSE LET a == Head(keys)[1]
             b == Head(keys)[2]
             count == PairCount(seqs, Head(keys))
             base == ItemCounts(seqs)[a]
             rule == RuleRecord(<<a>>, b, count, base, ItemCounts(seqs)[b],
                                Len(seqs))
         IN  (IF MeetsSupport(count, min_count)
                    /\ MeetsConfidence(count, base, mc)
              THEN <<rule>> ELSE <<>>)
                 \o SingleRules(Tail(keys), seqs, min_count, mc)

\* Lines 315-336: the rules A+B -> C of the remaining keys of triple_counts
RECURSIVE DualRules(_, _, _, _)
DualRules(keys, seqs, min_count, mc) ==
    IF Len(keys) = 0 THEN <<>>
    ELSE LET a == Head(keys)[1]
             b == Head(keys)[2]
             c == Head(keys)[3]
             count == TripleCount(seqs, Head(keys))
             ab_count == PairCount(seqs, <<a, b>>)
             rule == RuleRecord(<<a, b>>, c, count, ab_count,
                                ItemCounts(seqs)[c], Len(seqs))
         IN  (IF MeetsSupport(count, min_count)
                    /\ MeetsConfidence(count, ab_count, mc)
              THEN <<rule>> ELSE <<>>)
                 \o DualRules(Tail(keys), seqs, min_count, mc)

\* Line 339: the sort key, compared as Python compares tuples
RuleKeyAtLeast(x, y) ==
    \/ x.confidence > y.confidence
    \/ x.confidence = y.confidence /\ x.lift >= y.lift

RECURSIVE SortRules(_)
\* list.sort(key=..., reverse=True): descending and stable
SortRules(lst) ==
    IF Len(lst) = 0 THEN <<>>
    ELSE LET front == SortRules(SubSeq(lst, 1, Len(lst) - 1))
             x == lst[Len(lst)]
             ahead == Cardinality({k \in 1..Len(front) :
                                      RuleKeyAtLeast(front[k], x)})
         IN  SubSeq(front, 1, ahead) \o <<x>>
                 \o SubSeq(front, ahead + 1, Len(front))

\* Lines 261-341
MineAssociationRules(seqs, ms, mc) ==
    LET min_count == RuleMinCount(ms, Len(seqs))
        single == SingleRules(PairKeys(seqs), seqs, min_count, mc)
        dual == IF max_antecedent_len >= 2
                THEN DualRules(TripleKeys(seqs), seqs, min_count, mc)
                ELSE <<>>
        sorted == SortRules(single \o dual)
    IN  SubSeq(sorted, 1, Min(TopRules, Len(sorted)))

\* Sequence databases as _build_sequences returns them for a table without
\* a conversion column.
InitRules ==
    /\ pc = "sequences"
    /\ \E count \in 1..MaxUsers :
          \E ev \in [1..count -> SeqsOf(MineEvents, 1, MaxEvents)] :
              sequences = [k \in 1..count |->
                              [user_id |-> k, events |-> ev[k],
                               converted |-> FALSE, length |-> Len(ev[k])]]
    /\ min_support \in 0..SupportSteps
    /\ min_confidence \in 0..ConfidenceSteps
    /\ max_pattern_length = 0
    /\ frequent_patterns = Idle
    /\ association_rules = Idle
    /\ FunnelIdle /\ JourneyIdle /\ AttrIdle /\ LayoutIdle
    /\ PathIdle /\ ClusterIdle /\ KeyIdle
    /\ StepIdle
    /\ JobIdle

\* sequence_pattern_mining, lines 76-78
MineRules ==
    /\ pc = "sequences"
    /\ Len(sequences) > 0
    /\ association_rules' =
           MineAssociationRules(sequences, min_support, min_confidence)
    /\ pc' = "rules"
    /\ UNCHANGED <<funnelVars, journeyVars, attrVars, layoutVars, mineVars,
                   min_confidence, pathVars, clusterVars, keyVars,
                   stepVars,
                   jobVars>>

NextRules == MineRules

SpecRules == InitRules /\ [][NextRules]_vars

----------------------------------------------------------------------------
(* Properties of _mine_association_rules *)

Rules == {association_rules[k] : k \in 1..Len(association_rules)}

\* The users whose sequence contains the events of the list, each first
\* occurring after the first occurrence of the one before it
UsersWithInOrder(labels_) ==
    {k \in 1..Len(sequences) :
        LET e == sequences[k].events
        IN  /\ \A i \in 1..Len(labels_) : Contains(e, labels_[i])
            /\ \A i \in 1..(Len(labels_) - 1) :
                  IndexOf(e, labels_[i]) < IndexOf(e, labels_[i + 1])}

\* C11: every returned rule has support >= min_support and confidence >=
\* min_confidence, where support is count / N, the confidence of A -> B is
\* count(A,B) / count(A), that of A+B -> C is count(A,B,C) / count(A,B),
\* and lift is confidence over the fraction of users whose sequence has
\* the consequent; the counts are per user, over the user's distinct events.
C11_RulesMeetSupportAndConfidence ==
    pc = "rules" =>
        \A r \in Rules :
            LET N == Len(sequences)
                count == Cardinality(UsersWithInOrder(
                             Append(r.antecedent, r.consequent)))
                base == Cardinality(UsersWithInOrder(r.antecedent))
                cons == Cardinality(UsersWithInOrder(<<r.consequent>>))
            IN  /\ r.count = count
                /\ r.support = RoundScaled(count, N, SupportDigits)
                /\ r.confidence = RoundScaled(count, base, SupportDigits)
                /\ r.lift = RoundScaled(count * N, base * cons, SupportDigits)
                /\ count * SupportSteps >= min_support * N
                /\ count * ConfidenceSteps >= min_confidence * base

\* C12: the antecedent of a dual-antecedent rule is an unordered pair: the
\* result never holds two rules with the same antecedent set and the same
\* consequent, and the rule's count is the number of users whose sequence
\* has both antecedent events before the consequent, whichever came first.
C12_DualAntecedentUnordered ==
    pc = "rules" =>
        /\ \A k1, k2 \in 1..Len(association_rules) :
              LET r1 == association_rules[k1]
                  r2 == association_rules[k2]
              IN  (/\ {r1.antecedent[i] : i \in DOMAIN r1.antecedent}
                        = {r2.antecedent[i] : i \in DOMAIN r2.antecedent}
                   /\ r1.consequent = r2.consequent) => k1 = k2
        /\ \A r \in Rules :
              Len(r.antecedent) = 2 =>
                  r.count =
                      Cardinality(
                          UsersWithInOrder(<<r.antecedent[1], r.consequent>>)
                          \cap
                          UsersWithInOrder(<<r.antecedent[2], r.consequent>>))

----------------------------------------------------------------------------
(* PathAnalysisService.path_analysis                                       *)
(*                                                                         *)
(* The call reads user_paths only through the list of events of each user  *)
(* and the number of users that share a list, so user_paths is kept as     *)
(* path_groups: its distinct lists in the order in which the loop over     *)
(* user_paths.items() first meets them, each with its number of users.     *)

PathEvents == {"X", "Y"}

TopPaths == 20
TopCycles == 10
MinSymbolSize == 20
MaxSymbolSize == 60
UsersPerSize == 5

Max(a, b) == IF a > b THEN a ELSE b

\* Line 166: events[:max_path_length]
Truncate(events, n) == SubSeq(events, 1, Min(n, Len(events)))

\* Lines 161-168: the keys of path_counter in insertion order
PathKeys(groups, n) ==
    Dedupe([g \in 1..Len(groups) |-> Truncate(groups[g].events, n)])

\* path_counter[path]
PathCount(groups, n, path) ==
    LET same == {g \in 1..Len(groups) : Truncate(groups[g].events, n) = path}
    IN  SumOver([g \in same |-> groups[g].users], same)

\* Lines 174-179: the labels met again further down the path
CycleNodes(path) ==
    {path[k] : k \in {j \in 1..Len(path) :
                         \E i \in 1..(j - 1) : path[i] = path[j]}}

\* The elements of a list whose position keep marks, in the list's order
Select(lst, keep) ==
    LET at == {k \in 1..Len(lst) : keep[k]}
        Nth(k) == CHOOSE i \in at : Cardinality({j \in at : j < i}) = k - 1
    IN  [k \in 1..Cardinality(at) |-> lst[Nth(k)]]

\* Lines 171-186
CyclesDetected(groups, n) ==
    LET keys == PathKeys(groups, n)
        cyclic == Select(keys, [k \in 1..Len(keys) |->
                                   CycleNodes(keys[k]) # {}])
    IN  [k \in 1..Len(cyclic) |->
            [path |-> cyclic[k],
             user_count |-> PathCount(groups, n, cyclic[k]),
             cycle_nodes |-> CycleNodes(cyclic[k])]]

\* `if count >= min_user_count`, lines 193, 204, 235 and 259
MeetsUserCountMut(count, min_users) == count > min_users

MeetsUserCount(count, min_users) == count >= min_users

\* The paths that contribute nodes and links
KeptPaths(groups, n, min_users) ==
    LET keys == PathKeys(groups, n)
    IN  Select(keys, [k \in 1..Len(keys) |->
                         MeetsUserCount(PathCount(groups, n, keys[k]),
                                        min_users)])

\* Lines 189-197: the names of `nodes` in order; node_map[name] is the
\* position in this list, counted from 0.
NodeNames(groups, n, min_users) == Dedupe(Concat(KeptPaths(groups, n, min_users)))

NodeMap(names, name) == IndexOf(names, name) - 1

\* Lines 205-220: the links one kept path adds, as <<source, target>>
\* labels; `seen` is seen_in_path.
RECURSIVE SankeyWalkMut(_, _, _)
SankeyWalkMut(path, i, seen) ==
    IF i > Len(path) - 1 THEN <<>>
    ELSE (IF path[i] # path[i + 1] THEN <<<<path[i], path[i + 1]>>>>
          ELSE <<>>)
             \o SankeyWalkMut(path, i + 1, seen \cup {path[i]})

RECURSIVE SankeyWalk(_, _, _)
SankeyWalk(path, i, seen) ==
    IF i > Len(path) - 1 THEN <<>>
    ELSE IF path[i + 1] \in seen THEN SankeyWalk(path, i + 1, seen)
    ELSE (IF path[i] # path[i + 1] THEN <<<<path[i], path[i + 1]>>>>
          ELSE <<>>)
             \o SankeyWalk(path, i + 1, seen \cup {path[i]})

Occurrences(lst, x) == Cardinality({k \in 1..Len(lst) : lst[k] = x})

\* Lines 199-225: sankey_links, one per key of link_counter
SankeyLinks(groups, n, min_users) ==
    LET kept == KeptPaths(groups, n, min_users)
        names == NodeNames(groups, n, min_users)
        walks == [k \in 1..Len(kept) |-> SankeyWalk(kept[k], 1, {})]
        keys == Dedupe(Concat(walks))
        Total(key) ==
            SumOver([k \in 1..Len(kept) |->
                        Occurrences(walks[k], key)
                            * PathCount(groups, n, kept[k])],
                    1..Len(kept))
    IN  [k \in 1..Len(keys) |->
            [source |-> NodeMap(names, keys[k][1]),
             target |-> NodeMap(names, keys[k][2]),
             value |-> Total(keys[k])]]

\* Lines 246-254: the links one kept path adds to graph_links
GraphWalk(path, count) ==
    LET Differ(i) == path[i] # path[i + 1]
        steps == {i \in 1..(Len(path) - 1) : Differ(i)}
        Nth(k) == CHOOSE i \in steps :
                     Cardinality({j \in steps : j < i}) = k - 1
    IN  [k \in 1..Cardinality(steps) |->
            [source |-> path[Nth(k)], target |-> path[Nth(k) + 1],
             value |-> count]]

\* Lines 234-254
GraphLinks(groups, n, min_users) ==
    LET kept == KeptPaths(groups, n, min_users)
    IN  Concat([k \in 1..Len(kept) |->
                   GraphWalk(kept[k], PathCount(groups, n, kept[k]))])

\* Lines 267-271: node_stats[event]["users"], counted over the whole list
\* of events of every user
UniqueUsers(groups, event) ==
    LET with == {g \in 1..Len(groups) : Contains(groups[g].events, event)}
    IN  SumOver([g \in with |-> groups[g].users], with)

\* node_stats[event]["in"]
InDegree(groups, event) ==
    SumOver([g \in 1..Len(groups) |->
                groups[g].users
                    * Cardinality({i \in 2..Len(groups[g].events) :
                                      groups[g].events[i] = event})],
            1..Len(groups))

\* node_stats[event]["out"]
OutDegree(groups, event) ==
    SumOver([g \in 1..Len(groups) |->
                groups[g].users
                    * Cardinality({i \in 1..(Len(groups[g].events) - 1) :
                                      groups[g].events[i] = event})],
            1..Len(groups))

\* Lines 267-275: one entry of node_stats; "users" is the set of user ids,
\* kept as its size.
NodeStats(groups, event) ==
    [in |-> InDegree(groups, event),
     out |-> OutDegree(groups, event),
     users |-> UniqueUsers(groups, event)]

\* The keys of node_stats in insertion order: the labels of node_map in
\* the order in which the users' whole lists of events reach them
StatNames(groups, n, min_users) ==
    LET names == NodeNames(groups, n, min_users)
        met == Dedupe(Concat([g \in 1..Len(groups) |-> groups[g].events]))
    IN  Select(met, [k \in 1..Len(met) |-> Contains(names, met[k])])

\* dict.get(key, default)
Get(dict, key, default) == IF key \in DOMAIN dict THEN dict[key] ELSE default

\* Line 289: max(20, min(60, value / 5)), in tenths
SymbolSize(value) ==
    Max(MinSymbolSize * 10,
        Min(MaxSymbolSize * 10, (value * 10) \div UsersPerSize))

\* Line 288: node_stats.get(node["name"], {}).get("unique_users", 0)
NodeValue(groups, n, min_users, name) ==
    LET stats == IF Contains(StatNames(groups, n, min_users), name)
                 THEN NodeStats(groups, name) ELSE <<>>
    IN  Get(stats, "unique_users", 0)

\* Lines 234-244 and 287-289
GraphNodes(groups, n, min_users) ==
    LET names == NodeNames(groups, n, min_users)
    IN  [k \in 1..Len(names) |->
            [id |-> names[k], name |-> names[k],
             value |-> NodeValue(groups, n, min_users, names[k]),
             symbolSize |->
                 SymbolSize(NodeValue(groups, n, min_users, names[k]))]]

\* Stable descending sort of a list by the key of each position, as
\* sorted(reverse=True) and Counter.most_common order it
SortDescending(lst, key) ==
    LET Ahead(i) ==
            Cardinality({j \in 1..Len(lst) :
                            \/ key[j] > key[i]
                            \/ key[j] = key[i] /\ j < i})
    IN  [k \in 1..Len(lst) |->
            lst[CHOOSE i \in 1..Len(lst) : Ahead(i) = k - 1]]

\* Lines 277-284 and 307
NodeDetails(groups, n, min_users) ==
    LET names == StatNames(groups, n, min_users)
        details == [k \in 1..Len(names) |->
                       [name |-> names[k],
                        in_degree |-> NodeStats(groups, names[k]).in,
                        out_degree |-> NodeStats(groups, names[k]).out,
                        unique_users |-> NodeStats(groups, names[k]).users]]
    IN  SortDescending(details,
                       [k \in 1..Len(details) |-> details[k].unique_users])

TotalUsers(groups) ==
    SumOver([g \in 1..Len(groups) |-> groups[g].users], 1..Len(groups))

\* Lines 257-264
TopPathList(groups, n, min_users) ==
    LET Count(path) == PathCount(groups, n, path)
        keys == PathKeys(groups, n)
        common == SortDescending(keys, [k \in 1..Len(keys) |-> Count(keys[k])])
        most_common == SubSeq(common, 1, Min(TopPaths, Len(common)))
        kept == Select(most_common,
                       [k \in 1..Len(most_common) |->
                           MeetsUserCount(Count(most_common[k]), min_users)])
    IN  [k \in 1..Len(kept) |->
            [path |-> kept[k],
             user_count |-> Count(kept[k]),
             percentage |->
                 RoundScaled(Count(kept[k]) * 100, TotalUsers(groups),
                             PctDigits)]]

\* Lines 291-310
PathAnalysisResult(groups, n, min_users) ==
    LET cycles == CyclesDetected(groups, n)
        names == NodeNames(groups, n, min_users)
    IN  [total_users |-> TotalUsers(groups),
         total_paths |-> Len(PathKeys(groups, n)),
         has_cycle_in_data |-> Len(cycles) > 0,
         cycle_details |-> SubSeq(cycles, 1, Min(TopCycles, Len(cycles))),
         top_paths |-> TopPathList(groups, n, min_users),
         sankey_data |->
             [nodes |-> [k \in 1..Len(names) |->
                            [name |-> names[k], value |-> 0]],
              links |-> SankeyLinks(groups, n, min_users)],
         graph_data |->
             [nodes |-> GraphNodes(groups, n, min_users),
              links |-> GraphLinks(groups, n, min_users)],
         node_details |-> NodeDetails(groups, n, min_users),
         max_path_length |-> n]

\* The numbers of users a group can have: a few, or a few hundred
GroupSizes ==
    (1..MaxGroupUsers) \cup {k * GroupScale : k \in 1..MaxGroupUsers}

\* user_paths as the groupby of line 158 returns it: no empty list, the
\* groups being the distinct lists.
InitPath ==
    /\ pc = "paths"
    /\ \E count \in 1..MaxGroups :
          \E ev \in [1..count -> SeqsOf(PathEvents, 1, MaxPathEvents)] :
              \E size \in [1..count -> GroupSizes] :
                  /\ \A g1, g2 \in 1..count : g1 # g2 => ev[g1] # ev[g2]
                  /\ path_groups = [g \in 1..count |->
                                       [events |-> ev[g], users |-> size[g]]]
    /\ max_path_length \in 1..MaxPathEvents
    /\ min_user_count \in 0..MaxMinUsers
    /\ path_result = Idle
    /\ FunnelIdle /\ JourneyIdle /\ AttrIdle /\ LayoutIdle /\ MineIdle
    /\ RuleIdle /\ ClusterIdle /\ KeyIdle
    /\ StepIdle
    /\ JobIdle

\* path_analysis, lines 153-310
PathAnalysis ==
    /\ pc = "paths"
    /\ path_result' =
           PathAnalysisResult(path_groups, max_path_length, min_user_count)
    /\ pc' = "analysed"
    /\ UNCHANGED <<path_groups, max_path_length, min_user_count, funnelVars,
                   journeyVars, attrVars, layoutVars, mineVars, ruleVars,
                   clusterVars, keyVars,
                   stepVars,
                   jobVars>>

NextPath == PathAnalysis

SpecPath == InitPath /\ [][NextPath]_vars

----------------------------------------------------------------------------
(* Properties of path_analysis *)

\* The truncated sequence of each group of users
Truncated(g) == Truncate(path_groups[g].events, max_path_length)

TruncatedPaths == {Truncated(g) : g \in 1..Len(path_groups)}

\* The number of users whose truncated sequence is the path
SharedBy(path) ==
    LET same == {g \in 1..Len(path_groups) : Truncated(g) = path}
    IN  SumOver([g \in same |-> path_groups[g].users], same)

\* The position at which the loop over the users first meets the path
FirstSeen(path) ==
    CHOOSE g \in 1..Len(path_groups) :
        /\ Truncated(g) = path
        /\ \A h \in 1..(g - 1) : Truncated(h) # path

HasRepeat(path) ==
    \E i, j \in 1..Len(path) : i < j /\ path[i] = path[j]

\* The flow graph has a link from label a to label b
SankeyHasEdge(a, b) ==
    LET nodes == path_result.sankey_data.nodes
        links == path_result.sankey_data.links
    IN  \E k \in 1..Len(links) :
            /\ nodes[links[k].source + 1].name = a
            /\ nodes[links[k].target + 1].name = b

SingleUserXYX == path_groups = <<[events |-> <<"X", "Y", "X">>, users |-> 1]>>

CycleFlagExact ==
    path_result.has_cycle_in_data
        <=> \E path \in TruncatedPaths : HasRepeat(path)

\* C13: path analysis of a single user whose sequence is [X,Y,X] reports
\* has_cycle_in_data = true, and the flow graph has the edge X->Y and not
\* the edge Y->X; in general has_cycle_in_data is true exactly when some
\* user's truncated sequence repeats an event label.  (The example is read
\* with the whole sequence inside max_path_length.)
C13_CycleFlaggedFlowAcyclic ==
    pc = "analysed" =>
        /\ (SingleUserXYX /\ max_path_length >= 3) =>
              /\ path_result.has_cycle_in_data
              /\ SankeyHasEdge("X", "Y")
              /\ ~SankeyHasEdge("Y", "X")
        /\ CycleFlagExact

\* C13 as amended: the same, for a call that does not cut the sequence
\* short (max_path_length >= 3) and keeps the paths of a single user
\* (min_user_count <= 1).
C13_CycleFlaggedWhenPathKept ==
    pc = "analysed" =>
        /\ (SingleUserXYX /\ max_path_length >= 3 /\ min_user_count <= 1) =>
              /\ path_result.has_cycle_in_data
              /\ SankeyHasEdge("X", "Y")
              /\ ~SankeyHasEdge("Y", "X")
        /\ CycleFlagExact

\* C13 witness: the analysed single user [X,Y,X] with min_user_count 1,
\* whose flow graph has one link.
C13_Witness ==
    /\ pc = "analysed"
    /\ SingleUserXYX
    /\ min_user_count = 1
    /\ max_path_length = 3
    /\ Len(path_result.sankey_data.links) = 1
    /\ path_result.cycle_details[1].cycle_nodes = {"X"}

\* The truncated sequences shared by at least min_user_count users
FrequentPaths == {path \in TruncatedPaths : SharedBy(path) >= min_user_count}

LabelsOf(paths) == UNION {{path[i] : i \in 1..Len(path)} : path \in paths}

StepsOf(paths) ==
    UNION {{<<path[i], path[i + 1]>> : i \in 1..(Len(path) - 1)}
              : path \in paths}

\* Only the frequent sequences give the two graphs their nodes and links
GraphsFromFrequentPaths ==
    LET sankey == path_result.sankey_data
        graph == path_result.graph_data
    IN  /\ {sankey.nodes[k].name : k \in 1..Len(sankey.nodes)}
              = LabelsOf(FrequentPaths)
        /\ {graph.nodes[k].name : k \in 1..Len(graph.nodes)}
              = LabelsOf(FrequentPaths)
        /\ \A k \in 1..Len(sankey.links) :
              <<sankey.nodes[sankey.links[k].source + 1].name,
                sankey.nodes[sankey.links[k].target + 1].name>>
                  \in StepsOf(FrequentPaths)
        /\ {<<graph.links[k].source, graph.links[k].target>>
                : k \in 1..Len(graph.links)}
              = {st \in StepsOf(FrequentPaths) : st[1] # st[2]}

\* top_paths lists the given sequences, once each, by frequency descending
\* with ties in first-seen order
RankingOf(paths) ==
    LET top == path_result.top_paths
    IN  /\ Cardinality(paths) <= TopPaths
              => {top[k].path : k \in 1..Len(top)} = paths
        /\ \A k \in 1..Len(top) : top[k].user_count = SharedBy(top[k].path)
        /\ \A k, l \in 1..Len(top) :
              k < l =>
                  \/ top[k].user_count > top[l].user_count
                  \/ /\ top[k].user_count = top[l].user_count
                     /\ FirstSeen(top[k].path) < FirstSeen(top[l].path)

\* C14: only sequences shared by at least min_user_count users contribute
\* nodes and edges to the flow graph and the force graph, while sequences
\* shared by fewer users still appear in the top_paths ranking, which is
\* ordered by frequency descending with ties in first-seen order.
C14_RarePathsStillRanked ==
    pc = "analysed" =>
        GraphsFromFrequentPaths /\ RankingOf(TruncatedPaths)

\* C14 as amended: the sequences shared by fewer users are left out of
\* top_paths too; top_paths ranks the frequent ones only.
C14_RarePathsFilteredEverywhere ==
    pc = "analysed" =>
        GraphsFromFrequentPaths /\ RankingOf(FrequentPaths)

\* C14 witness: an analysed table with a sequence shared by exactly
\* min_user_count users, which is ranked and drawn, and a rarer one.
C14_Witness ==
    /\ pc = "analysed"
    /\ Len(path_result.top_paths) = 1
    /\ path_result.top_paths[1].user_count = min_user_count
    /\ Len(path_result.graph_data.links) > 0
    /\ \E path \in TruncatedPaths : SharedBy(path) < min_user_count

\* The users whose sequence visits the event
Visitors(event) ==
    LET with == {g \in 1..Len(path_groups) :
                    Contains(path_groups[g].events, event)}
    IN  SumOver([g \in with |-> path_groups[g].users], with)

\* value / 5 clamped to [20, 60], in tenths
ClampedSize(value) ==
    IF value * 2 < 200 THEN 200
    ELSE IF value * 2 > 600 THEN 600 ELSE value * 2

\* C15: for every node of the force graph, value is the number of distinct
\* users who visited the event and symbolSize is a linear function of that
\* number clamped to [20, 60], so a node with enough users is larger than 20.
C15_NodeValueIsDistinctUsers ==
    pc = "analysed" =>
        \A k \in 1..Len(path_result.graph_data.nodes) :
            LET node == path_result.graph_data.nodes[k]
            IN  /\ node.value = Visitors(node.name)
                /\ node.symbolSize = ClampedSize(Visitors(node.name))

\* The included paths: the truncated sequences enough users share
IncludedPaths == {path \in TruncatedPaths : SharedBy(path) >= min_user_count}

\* The path steps from label a to label b at a position where b has not
\* appeared before in the path
FirstVisitStep(path, a, b) ==
    \E i \in 1..(Len(path) - 1) :
        /\ path[i] = a
        /\ path[i + 1] = b
        /\ \A j \in 1..i : path[j] # b

\* The users of the included paths that step from a to a not yet visited b
FirstVisitUsers(a, b) ==
    LET with == {path \in IncludedPaths : FirstVisitStep(path, a, b)}
    IN  SumOver([path \in with |-> SharedBy(path)], with)

\* C24: the flow edge from position i to position i+1 of an included path
\* is counted only if the target label has not appeared at an earlier
\* position of the path, so a path adds its users to an edge at most once
\* and never to an edge into a label it has already visited: the value of
\* every flow link is at most the number of users of the included paths
\* that step along it into a label not yet visited.
C24_EdgeOnlyToUnvisitedLabel ==
    pc = "analysed" =>
        LET nodes == path_result.sankey_data.nodes
            links == path_result.sankey_data.links
        IN  \A k \in 1..Len(links) :
                links[k].value
                    <= FirstVisitUsers(nodes[links[k].source + 1].name,
                                       nodes[links[k].target + 1].name)

\* The flow links as pairs of node indices
SankeyEdges ==
    {<<path_result.sankey_data.links[k].source,
       path_result.sankey_data.links[k].target>> :
        k \in 1..Len(path_result.sankey_data.links)}

\* A directed graph has a cycle exactly when some non-empty set of its
\* nodes has, from each of its nodes, an edge into the set
HasDirectedCycle(edges) ==
    LET ends == {e[1] : e \in edges} \cup {e[2] : e \in edges}
    IN  \E S \in SUBSET ends :
            /\ S # {}
            /\ \A n \in S : \E m \in S : <<n, m>> \in edges

\* C25: the flow graph path_analysis returns is acyclic: its links contain
\* no self-loop and no directed cycle, for every input.
C25_FlowGraphAcyclic ==
    pc = "analysed" =>
        /\ \A e \in SankeyEdges : e[1] # e[2]
        /\ ~HasDirectedCycle(SankeyEdges)

----------------------------------------------------------------------------
(* PathAnalysisService.path_clustering, smart mode                         *)
(*                                                                         *)
(* feature_rows is feature_df: one row per user, in the order of user_ids  *)
(* (both come from the table sorted by user id), here with the feature     *)
(* total_events.  Of the per-feature statistics of a cluster the result    *)
(* keeps std, the one that is not a number for every cluster; mean, min    *)
(* and max, the description and the feature importance of a cluster do not *)
(* bear on the ids and counts and are left out of the result.              *)
(*                                                                         *)
(* A Python float is Finite(h), h hundredths, or NaN or Infinity; None is  *)
(* the null of the stored or returned JSON.                                *)

Finite(h) == [hundredths |-> h]

NaN == [nan |-> TRUE]

Infinity == [inf |-> TRUE]

None == [none |-> TRUE]

MinClusters == 2

\* Lines 362-363
LoweredClustersMut(users, n) ==
    IF users < n THEN Max(1, users) ELSE n

LoweredClusters(users, n) ==
    IF users < n THEN Max(1, users \div 2) ELSE n

\* Lines 377-381: the columns of feature_df
FeatureColumns(selected) ==
    SelectSeq(selected, LAMBDA f : f = "total_events")

\* Line 383: feature_df.empty or len(feature_df) < n_clusters
FeaturesInsufficient(rows, selected, n) ==
    \/ Len(rows) = 0
    \/ Len(FeatureColumns(selected)) = 0
    \/ Len(rows) < n

\* Lines 366-369 and 384-387
MessageResult(message, users) == [message |-> message, total_users |-> users]

\* Lines 394-395: kmeans.fit_predict.  K-means may return any labelling
\* with labels below n_clusters; equal rows get equal labels.
Labellings(rows, n) ==
    {l \in [1..Len(rows) -> 0..(n - 1)] :
        \A u, v \in 1..Len(rows) : rows[u] = rows[v] => l[u] = l[v]}

\* Line 398: np.unique(labels)
UniqueLabels(l) == {l[u] : u \in 1..Len(l)}

\* Lines 401-404: labels are replaced by their rank among the labels in use
RelabelMut(l, n) == l

Relabel(l, n) ==
    IF Cardinality(UniqueLabels(l)) < n
    THEN [u \in 1..Len(l) |->
             Cardinality({x \in UniqueLabels(l) : x < l[u]})]
    ELSE l

\* Lines 399-405
ActualClusters(l, n) == Min(Cardinality(UniqueLabels(l)), n)

\* Line 426: round(float(cluster_features[col].std()), 2), the sample
\* standard deviation (pandas divides by n - 1) of the feature over the
\* users of a cluster: NaN for one user, and otherwise the hundredths k
\* nearest to sqrt((n * sum(x^2) - sum(x)^2) / (n * (n - 1)))
SampleStd(rows, cluster_users) ==
    LET n == Cardinality(cluster_users)
        x == [u \in cluster_users |-> rows[u].total_events]
        sum == SumOver(x, cluster_users)
        squares == SumOver([u \in cluster_users |-> x[u] * x[u]],
                           cluster_users)
        num == 4 * 100 * 100 * (n * squares - sum * sum)
        den == n * (n - 1)
    IN  IF n < 2
        THEN NaN
        ELSE Finite(CHOOSE k \in 0..(100 * MaxEvents) :
                       /\ k = 0 \/ (2 * k - 1) * (2 * k - 1) * den <= num
                       /\ num < (2 * k + 1) * (2 * k + 1) * den)

\* Lines 409-429: the statistics of cluster i
ClusterStats(rows, l, i) ==
    LET cluster_users == {u \in 1..Len(l) : l[u] = i}
    IN  [cluster_id |-> i,
         user_count |-> Cardinality(cluster_users),
         percentage |->
             RoundScaled(Cardinality(cluster_users) * 100, Len(l), PctDigits),
         feature_stats |->
             [total_events |-> [std |-> SampleStd(rows, cluster_users)]]]

\* Lines 439-452
ClusteringResult(rows, l, n, selected) ==
    LET new_labels == Relabel(l, n)
        actual == ActualClusters(l, n)
        clusters == [k \in 1..actual |->
                        ClusterStats(rows, new_labels, k - 1)]
    IN  [total_users |-> Len(l),
         n_clusters |-> actual,
         feature_columns |-> FeatureColumns(selected),
         clusters |->
             SortDescending(clusters,
                            [k \in 1..actual |-> clusters[k].user_count]),
         user_cluster_mapping |->
             [u \in 1..Len(l) |-> [user_id |-> u, cluster |-> new_labels[u]]]]

\* A table of at least one row: one feature row per user
ClusterInputs ==
    /\ pc = "clustering"
    /\ feature_rows \in
           UNION {[1..users -> [total_events : 1..MaxEvents]]
                     : users \in 1..MaxClusterUsers}
    /\ selected_features \in {<<>>, <<"total_events">>}
    /\ requested_clusters \in 0..MaxClusters
    /\ n_clusters = requested_clusters
    /\ labels = Idle
    /\ cluster_result = Idle
    /\ FunnelIdle /\ JourneyIdle /\ AttrIdle /\ LayoutIdle /\ MineIdle
    /\ RuleIdle /\ PathIdle /\ KeyIdle
    /\ StepIdle

InitCluster == ClusterInputs /\ JobIdle

\* Lines 360-387: the cluster count is lowered; the call returns a message
\* or goes on to K-means
PrepareClusters ==
    /\ pc = "clustering"
    /\ LET users == Len(feature_rows)
           n == LoweredClusters(users, n_clusters)
       IN  /\ n_clusters' = n
           /\ IF n < MinClusters
              THEN /\ cluster_result' = MessageResult("too few users", users)
                   /\ pc' = "clustered"
              ELSE IF FeaturesInsufficient(feature_rows, selected_features, n)
              THEN /\ cluster_result' =
                         MessageResult("too few features", users)
                   /\ pc' = "clustered"
              ELSE /\ cluster_result' = cluster_result
                   /\ pc' = "kmeans"
    /\ UNCHANGED <<feature_rows, selected_features, requested_clusters,
                   labels, funnelVars, journeyVars, attrVars, layoutVars,
                   mineVars, ruleVars, pathVars, keyVars,
                   stepVars,
                   jobVars>>

\* Lines 390-395
KMeans ==
    /\ pc = "kmeans"
    /\ labels' \in Labellings(feature_rows, n_clusters)
    /\ pc' = "labelled"
    /\ UNCHANGED <<feature_rows, selected_features, requested_clusters,
                   n_clusters, cluster_result, funnelVars, journeyVars,
                   attrVars, layoutVars, mineVars, ruleVars, pathVars,
                   keyVars,
                   stepVars,
                   jobVars>>

\* Lines 397-452
ReportClusters ==
    /\ pc = "labelled"
    /\ cluster_result' =
           ClusteringResult(feature_rows, labels, n_clusters,
                            selected_features)
    /\ labels' = Relabel(labels, n_clusters)
    /\ n_clusters' = ActualClusters(labels, n_clusters)
    /\ pc' = "clustered"
    /\ UNCHANGED <<feature_rows, selected_features, requested_clusters,
                   funnelVars, journeyVars, attrVars, layoutVars, mineVars,
                   ruleVars, pathVars, keyVars,
                   stepVars,
                   jobVars>>

NextCluster == PrepareClusters \/ KMeans \/ ReportClusters

SpecCluster == InitCluster /\ [][NextCluster]_vars

----------------------------------------------------------------------------
(* Properties of path_clustering *)

UserCount == Len(feature_rows)

IsMessage(result) == "message" \in DOMAIN result

\* The count the call lowers an excessive n_clusters to
LoweredCount == IF UserCount \div 2 > 1 THEN UserCount \div 2 ELSE 1

C17_ClusterIdsContiguous ==
    (pc = "clustered" /\ ~IsMessage(cluster_result)) =>
        LET mapping == cluster_result.user_cluster_mapping
            clusters == cluster_result.clusters
        IN  /\ {mapping[k].cluster : k \in 1..Len(mapping)}
                  = 0..(cluster_result.n_clusters - 1)
            /\ \A u \in 1..UserCount :
                  Cardinality({k \in 1..Len(mapping) : mapping[k].user_id = u})
                      = 1
            /\ Len(mapping) = UserCount
            /\ \A k \in 1..Len(clusters) :
                  /\ clusters[k].user_count > 0
                  /\ clusters[k].user_count =
                        Cardinality({u \in 1..Len(mapping) :
                            mapping[u].cluster = clusters[k].cluster_id})
            /\ SumOver([k \in 1..Len(clusters) |-> clusters[k].user_count],
                       1..Len(clusters)) = cluster_result.total_users
            /\ cluster_result.total_users = UserCount

\* C17 witness: K-means asked for three clusters used the labels 0 and 2
\* only; the result has two clusters.
C17_Witness ==
    /\ pc = "clustered"
    /\ ~IsMessage(cluster_result)
    /\ requested_clusters = 3
    /\ cluster_result.n_clusters = 2
    /\ \E u \in 1..UserCount :
          cluster_result.user_cluster_mapping[u].cluster = 1

----------------------------------------------------------------------------
(* PathAnalysisService.key_path_analysis                                   *)
(*                                                                         *)
(* user_paths and user_timestamps are the dicts user_paths and user_times  *)
(* of lines 738-739; timestamps are whole hours.                           *)

KeyEvents == {"A", "B", "C"}

SecondsPerHour == 3600
TopKeyPaths == 10

\* Lines 745-749
QualifiesMut(events, start, end, steps) ==
    /\ Contains(events, start)
    /\ Contains(events, end)
    /\ IndexOf(events, start) < IndexOf(events, end)

Qualifies(events, start, end, steps) ==
    /\ Contains(events, start)
    /\ Contains(events, end)
    /\ IndexOf(events, start) < IndexOf(events, end)
    /\ IndexOf(events, end) - IndexOf(events, start) <= steps

\* Lines 750-760: the record of a qualifying user
CompletePath(user_id, events, times, start, end) ==
    LET start_idx == IndexOf(events, start)
        end_idx == IndexOf(events, end)
        path_segment == SubSeq(events, start_idx, end_idx)
        time_segment == SubSeq(times, start_idx, end_idx)
    IN  [user_id |-> user_id,
         path |-> path_segment,
         steps |-> Len(path_segment) - 1,
         duration_seconds |->
             (time_segment[Len(time_segment)] - time_segment[1])
                 * SecondsPerHour]

\* Lines 742-760
CompletePaths(paths, times, start, end, steps) ==
    Concat([u \in 1..Len(paths) |->
        IF Qualifies(paths[u], start, end, steps)
        THEN <<CompletePath(u, paths[u], times[u], start, end)>>
        ELSE <<>>])

\* min(lst, key=...): the first element with the least key, key being
\* the key of each position
MinBy(lst, key) ==
    lst[CHOOSE k \in 1..Len(lst) :
            /\ \A j \in 1..Len(lst) : key[k] <= key[j]
            /\ \A j \in 1..(k - 1) : key[j] > key[k]]

\* Line 776
MinStepsPathMut(complete) == complete[1]

MinStepsPath(complete) ==
    MinBy(complete, [k \in 1..Len(complete) |-> complete[k].steps])

\* Line 777
MinDurationPath(complete) ==
    MinBy(complete, [k \in 1..Len(complete) |->
                        complete[k].duration_seconds])

\* Lines 763-766
NoPathResultMut(start, end) ==
    [start_event |-> start, end_event |-> end, complete_path_count |-> 0,
     optimal_paths |-> <<>>]

NoPathResult(start, end) ==
    [message |-> <<"no complete path", start, end>>,
     complete_path_count |-> 0]

\* Lines 786-795: one entry of optimal_paths
OptimalPath(p) ==
    [path |-> p.path, steps |-> p.steps,
     duration_seconds |-> p.duration_seconds]

\* Lines 769 and 797-804
KeyTopPaths(complete) ==
    LET segments == [k \in 1..Len(complete) |-> complete[k].path]
        Count(path) == Occurrences(segments, path)
        keys == Dedupe(segments)
        common == SortDescending(keys, [k \in 1..Len(keys) |-> Count(keys[k])])
        most_common == SubSeq(common, 1, Min(TopKeyPaths, Len(common)))
    IN  [k \in 1..Len(most_common) |->
            [path |-> most_common[k],
             count |-> Count(most_common[k]),
             percentage |->
                 RoundScaled(Count(most_common[k]) * 100, Len(complete),
                             PctDigits)]]

\* Lines 762-805; the averages are round(x, 2), in hundredths
KeyPathResult(complete, start, end) ==
    IF Len(complete) = 0 THEN NoPathResult(start, end)
    ELSE LET Steps(p) == p.steps
             Duration(p) == p.duration_seconds
             n == Len(complete)
         IN  [start_event |-> start,
              end_event |-> end,
              complete_path_count |-> n,
              avg_duration_seconds |->
                  RoundScaled(SumOver([k \in 1..n |-> Duration(complete[k])],
                                      1..n), n, PctDigits),
              avg_steps |->
                  RoundScaled(SumOver([k \in 1..n |-> Steps(complete[k])],
                                      1..n), n, PctDigits),
              optimal_paths |->
                  [min_steps |-> OptimalPath(MinStepsPath(complete)),
                   min_duration |-> OptimalPath(MinDurationPath(complete))],
              top_paths |-> KeyTopPaths(complete)]

\* user_paths and user_times as the groupbys of lines 738-739 return them
InitKeyPath ==
    /\ pc = "key_paths"
    /\ \E p \in UNION {[1..n -> SeqsOf(KeyEvents, 1, MaxEvents)]
                          : n \in 1..MaxUsers} :
          /\ user_paths = p
          /\ user_timestamps \in
                {t \in [DOMAIN p ->
                           UNION {TimestampLists(k) : k \in 1..MaxEvents}] :
                    \A u \in DOMAIN p : Len(t[u]) = Len(p[u])}
    /\ start_event \in {"A", "B"}
    /\ end_event \in {"B", "C"}
    /\ max_steps \in 0..MaxSteps
    /\ complete_paths = <<>>
    /\ key_result = Idle
    /\ funnel_steps = Idle /\ time_window = Idle /\ fstep = 0
    /\ step_users = Idle /\ step_times = Idle /\ results = Idle
    /\ JourneyIdle /\ AttrIdle /\ LayoutIdle /\ MineIdle
    /\ RuleIdle /\ PathIdle /\ ClusterIdle
    /\ StepIdle
    /\ JobIdle

\* Lines 742-760: the loop over the users
CollectCompletePaths ==
    /\ pc = "key_paths"
    /\ complete_paths' =
           CompletePaths(user_paths, user_timestamps, start_event, end_event,
                         max_steps)
    /\ pc' = "collected"
    /\ UNCHANGED <<funnelVars, journeyVars, attrVars, layoutVars, mineVars,
                   ruleVars, pathVars, clusterVars, start_event, end_event,
                   max_steps, key_result,
                   stepVars,
                   jobVars>>

\* Lines 762-805
ReportKeyPaths ==
    /\ pc = "collected"
    /\ key_result' = KeyPathResult(complete_paths, start_event, end_event)
    /\ pc' = "key_done"
    /\ UNCHANGED <<funnelVars, journeyVars, attrVars, layoutVars, mineVars,
                   ruleVars, pathVars, clusterVars, start_event, end_event,
                   max_steps, complete_paths,
                   stepVars,
                   jobVars>>

NextKeyPath == CollectCompletePaths \/ ReportKeyPaths

SpecKeyPath == InitKeyPath /\ [][NextKeyPath]_vars

----------------------------------------------------------------------------
(* Properties of key_path_analysis *)

KeyUsers == 1..Len(user_paths)

\* The users that complete_paths holds a record of
RecordedUsers == {complete_paths[k].user_id : k \in 1..Len(complete_paths)}

\* The journey has the start label before the end label, at most max_steps
\* positions apart
StartBeforeEnd(events) ==
    \E i, j \in 1..Len(events) :
        /\ events[i] = start_event
        /\ events[j] = end_event
        /\ i < j
        /\ j - i <= max_steps

\* The first start label is before the first end label, at most max_steps
\* positions apart
FirstStartBeforeFirstEnd(events) ==
    \E i, j \in 1..Len(events) :
        /\ events[i] = start_event /\ \A k \in 1..(i - 1) : events[k] # start_event
        /\ events[j] = end_event /\ \A k \in 1..(j - 1) : events[k] # end_event
        /\ i < j
        /\ j - i <= max_steps

\* Each record is the inclusive sub-sequence between the first occurrences
\* of the two labels
RecordsAreFirstSegments ==
    /\ \A k1, k2 \in 1..Len(complete_paths) :
          complete_paths[k1].user_id = complete_paths[k2].user_id => k1 = k2
    /\ \A k \in 1..Len(complete_paths) :
          LET rec == complete_paths[k]
              events == user_paths[rec.user_id]
          IN  /\ rec.path = SubSeq(events, IndexOf(events, start_event),
                                   IndexOf(events, end_event))
              /\ rec.path[1] = start_event
              /\ rec.path[Len(rec.path)] = end_event
              /\ rec.steps = Len(rec.path) - 1
              /\ rec.steps >= 1
              /\ rec.steps <= max_steps

\* C18: a user qualifies exactly when the user's journey contains the start
\* label strictly before the end label with at most max_steps steps between
\* them; the recorded path runs from the first occurrence of the start
\* label to the first occurrence of the end label, begins with start_event,
\* ends with end_event, and steps is its length minus 1, within
\* 1..max_steps.  (Stated for two distinct boundary labels.)
C18_QualifiesWhenStartBeforeEnd ==
    (pc \in {"collected", "key_done"} /\ start_event # end_event) =>
        /\ \A u \in KeyUsers :
              u \in RecordedUsers <=> StartBeforeEnd(user_paths[u])
        /\ RecordsAreFirstSegments

\* C18 as amended: a user qualifies exactly when the first occurrence of
\* the start label is strictly before the first occurrence of the end
\* label and at most max_steps positions from it.
C18_QualifiesOnFirstOccurrences ==
    pc \in {"collected", "key_done"} =>
        /\ \A u \in KeyUsers :
              u \in RecordedUsers <=> FirstStartBeforeFirstEnd(user_paths[u])
        /\ RecordsAreFirstSegments

\* C18 witness: a user recorded with a two-step path, and another whose
\* journey has the start label before an end label but whose first end
\* label comes too early.
C18_Witness ==
    /\ pc = "collected"
    /\ start_event # end_event
    /\ \E k \in 1..Len(complete_paths) : complete_paths[k].steps = 2
    /\ \E u \in KeyUsers :
          u \notin RecordedUsers /\ StartBeforeEnd(user_paths[u])

HasOptimalPaths == "optimal_paths" \in DOMAIN key_result

\* C19: with at least one qualifying user, the min_steps path has no more
\* steps than any qualifying path (so no more than the min_duration path)
\* and the min_duration path lasts no longer than any qualifying path; for
\* users [A,B,C] and [A,C] with start A and end C (max_steps at its default,
\* or any value from 2) both qualify and the min_steps path is [A,C], 1 step.
C19_OptimalPathsAreMinimal ==
    (pc = "key_done" /\ Len(complete_paths) > 0) =>
        LET best == key_result.optimal_paths
        IN  /\ \A k \in 1..Len(complete_paths) :
                  /\ best.min_steps.steps <= complete_paths[k].steps
                  /\ best.min_duration.duration_seconds
                        <= complete_paths[k].duration_seconds
            /\ best.min_steps.steps <= best.min_duration.steps
            /\ \E k \in 1..Len(complete_paths) :
                  OptimalPath(complete_paths[k]) = best.min_steps
            /\ \E k \in 1..Len(complete_paths) :
                  OptimalPath(complete_paths[k]) = best.min_duration
            /\ (/\ user_paths = <<<<"A", "B", "C">>, <<"A", "C">>>>
                /\ start_event = "A" /\ end_event = "C" /\ max_steps >= 2) =>
                  /\ key_result.complete_path_count = 2
                  /\ best.min_steps.path = <<"A", "C">>
                  /\ best.min_steps.steps = 1

\* C19 witness: users [A,B,C] and [A,C] from A to C, the longer path being
\* the quicker one.
C19_Witness ==
    /\ pc = "key_done"
    /\ user_paths = <<<<"A", "B", "C">>, <<"A", "C">>>>
    /\ start_event = "A" /\ end_event = "C"
    /\ key_result.complete_path_count = 2
    /\ key_result.optimal_paths.min_steps.path = <<"A", "C">>
    /\ key_result.optimal_paths.min_duration.path = <<"A", "B", "C">>

\* C20: when no user's journey satisfies both boundary conditions, the
\* result carries a message and complete_path_count = 0 and no
\* optimal-path fields.
C20_NoPathGivesMessage ==
    (/\ pc = "key_done"
     /\ \A u \in KeyUsers : ~FirstStartBeforeFirstEnd(user_paths[u])) =>
        /\ DOMAIN key_result = {"message", "complete_path_count"}
        /\ key_result.complete_path_count = 0
        /\ ~HasOptimalPaths

\* C20 witness: a reported call in which a user has both labels, the end
\* label first, and nobody qualifies.
C20_Witness ==
    /\ pc = "key_done"
    /\ "message" \in DOMAIN key_result
    /\ start_event # end_event
    /\ \E u \in KeyUsers :
          /\ Contains(user_paths[u], start_event)
          /\ Contains(user_paths[u], end_event)

----------------------------------------------------------------------------
(* Analysis jobs: create_analysis, execute_analysis_task,                  *)
(* update_analysis_status and delete_analysis                              *)
(* (api/v1/endpoints/analysis.py)                                          *)
(*                                                                         *)
(* analysis is the job's row of the analyses table.  The handler and the   *)
(* background task each work on it through a database session of their     *)
(* own; every commit is one step.  A service call is its outcome: the      *)
(* dict it returns or the exception it raises.  The type "bogus" stands    *)
(* for every analysis_type and path_type the dispatch does not name;       *)
(* "descriptive" stands for the types whose branch only calls a service.   *)

AnalysisTypes ==
    {"descriptive", "forecast", "path", "attribution", "sequence_mining",
     "bogus"}

PathTypes == {"funnel", "path", "clustering", "key_path", "bogus"}

\* payload.analysis_type and the params the dispatch looks at
Requests ==
    [analysis_type : AnalysisTypes,
     path_type : PathTypes,
     columns_given : BOOLEAN,
     funnel_steps_given : BOOLEAN,
     boundary_given : BOOLEAN]

\* datetime.now()
Now == [now |-> TRUE]

\* An error message
Message(text) == [text |-> text]

\* Lines 28-52: clean_json_data on a float
CleanFloat(obj) == IF obj \in {NaN, Infinity} THEN None ELSE obj

\* Lines 28-52: clean_json_data on a result dict.  Of the leaves of the
\* results modelled here the std of a cluster is the float that may be
\* non-finite; strings, ints and the finite percentage are returned as
\* they are.
CleanJsonData(obj) ==
    IF "clusters" \in DOMAIN obj
    THEN [obj EXCEPT !.clusters =
             [k \in 1..Len(obj.clusters) |->
                 [obj.clusters[k] EXCEPT !.feature_stats =
                     [col \in DOMAIN obj.clusters[k].feature_stats |->
                         [stat \in DOMAIN obj.clusters[k].feature_stats[col]
                             |-> CleanFloat(
                                   obj.clusters[k].feature_stats[col][stat])]]]]]
    ELSE obj

\* Lines 690-698: the row after update_analysis_status
UpdatedRow(row, status, result, error_msg) ==
    [status |-> status,
     completed_at |->
         IF status \in {"completed", "failed"} THEN Now ELSE None,
     result_data |->
         IF result # None THEN CleanJsonData(result) ELSE row.result_data,
     error_msg |-> IF error_msg # None THEN error_msg ELSE row.error_msg]

\* Lines 681-701: update_analysis_status as called by the task; a row that
\* is gone is left alone
UpdateAnalysisStatus(status, result, error_msg) ==
    IF analysis = Idle
    THEN UNCHANGED <<analysis, terminal_writes>>
    ELSE /\ analysis' = UpdatedRow(analysis, status, result, error_msg)
         /\ terminal_writes' =
                IF status \in {"completed", "failed"}
                THEN terminal_writes + 1
                ELSE terminal_writes

\* The other calls are at rest while a job runs
OtherCallsIdle ==
    /\ FunnelIdle /\ JourneyIdle /\ AttrIdle /\ LayoutIdle /\ MineIdle
    /\ RuleIdle /\ PathIdle /\ ClusterIdle /\ KeyIdle /\ StepIdle

otherVars ==
    <<pc, funnelVars, journeyVars, attrVars, layoutVars, mineVars, ruleVars,
      pathVars, clusterVars, keyVars, stepVars>>

InitJob ==
    /\ pc = "job"
    /\ request \in Requests
    /\ handler_pc = "idle"
    /\ task_pc = "idle"
    /\ analysis = Idle
    /\ result_data = Idle
    /\ terminal_writes = 0
    /\ response = Idle
    /\ OtherCallsIdle

\* Lines 723-732: the dataset is not one of the user's
RejectAnalysis ==
    /\ pc = "job"
    /\ handler_pc = "idle"
    /\ handler_pc' = "rejected"
    /\ response' = [code |-> 404]
    /\ UNCHANGED <<request, task_pc, analysis, result_data, terminal_writes,
                   otherVars>>

\* Lines 734-744: the row is committed with status pending
CreateAnalysis ==
    /\ pc = "job"
    /\ handler_pc = "idle"
    /\ analysis' = [status |-> "pending", completed_at |-> None,
                    result_data |-> None, error_msg |-> None]
    /\ handler_pc' = "created"
    /\ UNCHANGED <<request, task_pc, result_data, terminal_writes, response,
                   otherVars>>

\* Lines 746-753: background_tasks.add_task
ScheduleTask ==
    /\ handler_pc = "created"
    /\ task_pc' = "scheduled"
    /\ handler_pc' = "scheduled"
    /\ UNCHANGED <<request, analysis, result_data, terminal_writes, response,
                   otherVars>>

\* Lines 756-758: the handler's session commits status running
MarkRunning ==
    /\ handler_pc = "scheduled"
    /\ analysis' = [analysis EXCEPT !.status = "running"]
    /\ handler_pc' = "running"
    /\ UNCHANGED <<request, task_pc, result_data, terminal_writes, response,
                   otherVars>>

\* Line 761
Respond ==
    /\ handler_pc = "running"
    /\ response' = [code |-> 202, data |-> analysis]
    /\ handler_pc' = "responded"
    /\ UNCHANGED <<request, task_pc, analysis, result_data, terminal_writes,
                   otherVars>>

\* Lines 707 and 746: the tasks of a BackgroundTasks parameter run once the
\* response of the handler has been sent
TaskMayStartMut == handler_pc \in {"scheduled", "running", "responded"}

TaskMayStart == handler_pc = "responded"

\* Lines 55-68
StartTask ==
    /\ task_pc = "scheduled"
    /\ TaskMayStart
    /\ task_pc' = "started"
    /\ UNCHANGED <<request, handler_pc, analysis, result_data,
                   terminal_writes, response, otherVars>>

\* What lines 70-101 can come to
LoadOutcomes ==
    {"loaded", "dataset not found", "unsupported format", "read failed"}

\* Lines 70-101: the dataset and its file are read; a failure is recorded
\* and the task returns
LoadDataset ==
    /\ task_pc = "started"
    /\ \E outcome \in LoadOutcomes :
          IF outcome = "loaded"
          THEN /\ task_pc' = "loaded"
               /\ UNCHANGED <<analysis, terminal_writes>>
          ELSE /\ UpdateAnalysisStatus("failed", None, Message(outcome))
               /\ task_pc' = "done"
    /\ UNCHANGED <<request, handler_pc, result_data, response, otherVars>>

\* Lines 104-596: what the branch of a request can come to: the dict of a
\* service, an exception, the dict of the final else, or the recorded
\* failure of a forecast without a numeric column
AnalysisOutcomes(req) ==
    LET service == {"result", "raise"}
    IN  CASE req.analysis_type = "descriptive" -> service
          [] req.analysis_type = "forecast" -> service \cup {"no numeric column"}
          [] req.analysis_type = "path" ->
                IF ~req.columns_given THEN {"raise"}
                ELSE CASE req.path_type = "funnel" ->
                             IF req.funnel_steps_given
                             THEN service ELSE {"raise"}
                       [] req.path_type \in {"path", "clustering"} -> service
                       [] req.path_type = "key_path" ->
                             IF req.boundary_given
                             THEN service ELSE {"raise"}
                       [] OTHER -> {"raise"}
          [] req.analysis_type \in {"attribution", "sequence_mining"} ->
                IF req.columns_given THEN service ELSE {"raise"}
          [] OTHER -> {"error dict"}

\* Lines 104-596
RunAnalysis ==
    /\ task_pc = "loaded"
    /\ pc = "job"
    /\ \E outcome \in AnalysisOutcomes(request) :
          CASE outcome = "result" ->
                  /\ result_data' = [analysis_type |-> request.analysis_type]
                  /\ task_pc' = "computed"
                  /\ UNCHANGED <<analysis, terminal_writes>>
            [] outcome = "error dict" ->
                  /\ result_data' = [error |-> "unknown analysis type"]
                  /\ task_pc' = "computed"
                  /\ UNCHANGED <<analysis, terminal_writes>>
            [] outcome = "raise" ->
                  /\ task_pc' = "raised"
                  /\ UNCHANGED <<analysis, terminal_writes, result_data>>
            [] outcome = "no numeric column" ->
                  /\ UpdateAnalysisStatus("failed", None, Message(outcome))
                  /\ task_pc' = "done"
                  /\ UNCHANGED result_data
    /\ UNCHANGED <<request, handler_pc, response, otherVars>>

\* Lines 616-619
RecordCompleted ==
    /\ task_pc = "computed"
    /\ UpdateAnalysisStatus("completed", result_data, None)
    /\ task_pc' = "done"
    /\ UNCHANGED <<request, handler_pc, result_data, response, otherVars>>

\* Lines 620-625
RecordFailed ==
    /\ task_pc = "raised"
    /\ UpdateAnalysisStatus("failed", None, Message("analysis failed"))
    /\ task_pc' = "done"
    /\ UNCHANGED <<request, handler_pc, result_data, response, otherVars>>

\* Lines 870-889: delete_analysis, called with the id the response of
\* create_analysis carried
DeleteAnalysis ==
    /\ pc = "job"
    /\ handler_pc = "responded"
    /\ analysis # Idle
    /\ analysis' = Idle
    /\ UNCHANGED <<request, handler_pc, task_pc, result_data,
                   terminal_writes, response, otherVars>>

\* execute_analysis_task
NextTask ==
    StartTask \/ LoadDataset \/ RunAnalysis \/ RecordCompleted \/ RecordFailed

NextJob ==
    \/ RejectAnalysis \/ CreateAnalysis \/ ScheduleTask \/ MarkRunning
    \/ Respond \/ NextTask \/ DeleteAnalysis

\* The event loop runs a started task to its end
SpecJob == InitJob /\ [][NextJob]_vars /\ WF_vars(NextTask)

----------------------------------------------------------------------------
(* Properties of the analysis jobs *)

Terminal == {"completed", "failed"}

\* A request the dispatch has no analysis for: an analysis type or a path
\* type it does not name, or a funnel without funnel steps
InvalidRequest(req) ==
    \/ req.analysis_type = "bogus"
    \/ /\ req.analysis_type = "path"
       /\ \/ req.path_type = "bogus"
          \/ req.path_type = "funnel" /\ ~req.funnel_steps_given

\* C22: a request with an unknown analysis type, an unknown path subtype
\* or a funnel without funnel steps never leaves its job in status
\* completed and never stores a result payload; once the task has recorded
\* its outcome the job is in status failed.
C22_InvalidRequestFails ==
    (pc = "job" /\ InvalidRequest(request) /\ analysis # Idle) =>
        /\ analysis.status # "completed"
        /\ analysis.result_data = None
        /\ terminal_writes > 0 => analysis.status = "failed"

\* The steps of the lifecycle
LifecycleSteps ==
    {<<"pending", "running">>, <<"running", "completed">>,
     <<"running", "failed">>}

\* A row starts pending, and its status changes only along the lifecycle:
\* no step leaves completed or failed
StatusFollowsLifecycle ==
    /\ (analysis = Idle /\ analysis' # Idle) => analysis'.status = "pending"
    /\ (analysis # Idle /\ analysis' # Idle
            /\ analysis'.status # analysis.status)
          => <<analysis.status, analysis'.status>> \in LifecycleSteps

\* completed_at is set exactly when the status is terminal
CompletedAtIffTerminal ==
    analysis # Idle =>
        (analysis.completed_at # None <=> analysis.status \in Terminal)

\* C30: every job follows pending -> running -> (completed | failed) and a
\* terminal status never changes again, completed_at is set exactly when
\* the status is terminal, and every started task ends having recorded
\* exactly one terminal status.
C30_JobLifecycle ==
    /\ [][StatusFollowsLifecycle]_vars
    /\ [](pc = "job" => CompletedAtIffTerminal)
    /\ [](task_pc = "done" => terminal_writes = 1)
    /\ (task_pc = "started") ~> (task_pc = "done")

\* C30 as amended: every job follows pending -> running -> (completed |
\* failed) and a terminal status never changes again, completed_at is set
\* exactly when the status is terminal, and every started task ends,
\* having recorded at most one terminal status: exactly one, the status of
\* the job, when the job's row is still there, and none when
\* delete_analysis removed the row before the task could record it.
C30_JobLifecycleUnlessDeleted ==
    /\ [][StatusFollowsLifecycle]_vars
    /\ [](pc = "job" => CompletedAtIffTerminal)
    /\ [](terminal_writes <= 1)
    /\ []((task_pc = "done" /\ analysis # Idle) =>
             /\ terminal_writes = 1
             /\ analysis.status \in Terminal)
    /\ []((task_pc # "done" /\ analysis # Idle) =>
             analysis.status \notin Terminal)
    /\ (task_pc = "started") ~> (task_pc = "done")

\* C30 witness: the task of a path request of unknown path type has run
\* after the handler marked the job running, the exception was recorded
\* as the one terminal status, and completed_at is set.
C30_Witness ==
    /\ task_pc = "done"
    /\ handler_pc = "responded"
    /\ request.analysis_type = "path"
    /\ request.columns_given
    /\ request.path_type = "bogus"
    /\ analysis # Idle
    /\ analysis.status = "failed"
    /\ analysis.completed_at = Now
    /\ terminal_writes = 1

----------------------------------------------------------------------------
(* The result of path_clustering on its way out: stored by the background  *)
(* task (execute_analysis_task, update_analysis_status) or returned by     *)
(* quick_path_analysis (api/v1/endpoints/analysis.py)                      *)
(*                                                                         *)
(* The call starts either in the task of a running job, once the dataset   *)
(* is loaded, or in the quick endpoint.  The task passes no                *)
(* selected_features, so path_clustering extracts every feature.           *)

ClusteringRequest ==
    [analysis_type |-> "path", path_type |-> "clustering",
     columns_given |-> TRUE, funnel_steps_given |-> FALSE,
     boundary_given |-> FALSE]

InitClusterOut ==
    /\ ClusterInputs
    /\ request = ClusteringRequest
    /\ result_data = Idle
    /\ terminal_writes = 0
    /\ response = Idle
    /\ \/ /\ handler_pc = "responded"
          /\ task_pc = "loaded"
          /\ analysis = [status |-> "running", completed_at |-> None,
                         result_data |-> None, error_msg |-> None]
          /\ selected_features = <<"total_events">>
       \/ /\ handler_pc = "quick"
          /\ task_pc = "idle"
          /\ analysis = Idle

\* Lines 516-521: result_data of the task
TaskClusteringReturns ==
    /\ pc = "clustered"
    /\ task_pc = "loaded"
    /\ result_data' = cluster_result
    /\ task_pc' = "computed"
    /\ UNCHANGED <<request, handler_pc, analysis, terminal_writes, response,
                   otherVars>>

\* Lines 991-1000: result_data of the quick endpoint
QuickClusteringReturns ==
    /\ pc = "clustered"
    /\ handler_pc = "quick"
    /\ result_data' = cluster_result
    /\ handler_pc' = "quick_computed"
    /\ UNCHANGED <<request, task_pc, analysis, terminal_writes, response,
                   otherVars>>

\* Line 1008: return ResponseModel(data=result_data)
QuickRespond ==
    /\ handler_pc = "quick_computed"
    /\ response' = [code |-> 200, data |-> result_data]
    /\ handler_pc' = "quick_done"
    /\ UNCHANGED <<request, task_pc, analysis, result_data, terminal_writes,
                   otherVars>>

NextClusterOut ==
    \/ PrepareClusters \/ KMeans \/ ReportClusters
    \/ TaskClusteringReturns \/ RecordCompleted
    \/ QuickClusteringReturns \/ QuickRespond

SpecClusterOut == InitClusterOut /\ [][NextClusterOut]_vars

----------------------------------------------------------------------------
(* Properties of the results leaving the core *)

\* No float of the result is NaN or infinite
NonFiniteFree(obj) ==
    "clusters" \in DOMAIN obj =>
        \A k \in 1..Len(obj.clusters) :
            \A col \in DOMAIN obj.clusters[k].feature_stats :
                \A stat \in DOMAIN obj.clusters[k].feature_stats[col] :
                    obj.clusters[k].feature_stats[col][stat]
                        \notin {NaN, Infinity}

\* C23: every result that leaves the core, stored by the background task
\* or returned by the quick endpoint, contains no NaN and no infinite
\* number: the std of a one-member cluster has become None.
C23_NoNonFiniteLeavesCore ==
    /\ (analysis # Idle /\ analysis.result_data # None)
          => NonFiniteFree(analysis.result_data)
    /\ response # Idle => NonFiniteFree(response.data)

====
